---- MODULE Spec2Model ----
(***************************************************************************)
(* Model of the assessment backend (backend/routers/assessment.py and      *)
(* backend/services/classifier.py): the scan-run workflow, the integration *)
(* model extractor, the pattern classifier, the instruction override and   *)
(* the bundle clusterer.                                                   *)
(*                                                                         *)
(* Pure functions are operators; each one is exercised by a specification  *)
(* whose Init draws the call's arguments and whose action stores the       *)
(* call's outcome.  Spec is the scan-run workflow.                         *)
(***************************************************************************)
EXTENDS Integers, Sequences, FiniteSets, TLC

VARIABLES
    token,          \* TRUE when table github_tokens holds a token
    scan_runs,      \* table scan_runs: one row per run, in insertion order
    requests,       \* the start_scan requests: position, response, arguments
    jobs,           \* the background task _run_scan_job of each run
    findings_raw,   \* argument of _extract_integration_model
    extract_out,    \* outcome of _extract_integration_model (or NoCall)
    cls_in,         \* argument of classify_repo, as the regex matches on it
    cls_out,        \* ClassifyResult returned by classify_repo (or NoCall)
    ovr_in,         \* arguments of _apply_pattern_instructions
    ovr_out,        \* pattern returned by _apply_pattern_instructions
    applications,   \* committed rows of table applications
    bundles_resp,   \* response of bundles(run_id) (or NoCall)
    graph_resp      \* response of dependency_graph(run_id) (or NoCall)

vars == <<token, scan_runs, requests, jobs, findings_raw, extract_out, cls_in,
          cls_out, ovr_in, ovr_out, applications, bundles_resp, graph_resp>>

\* value of a result variable before the call has been made
NoCall == [k |-> "nocall"]

-----------------------------------------------------------------------------
(***************************************************************************)
(* JSON / Python values.  A value is a record tagged by its Python type;   *)
(* a dict carries the keys the code reads, JAbsent marking a missing key.  *)
(***************************************************************************)
JAbsent == [k |-> "absent"]
JNull == [k |-> "null"]
JNum(n) == [k |-> "num", n |-> n]
JStr(s) == [k |-> "str", s |-> s]
JList(xs) == [k |-> "list", xs |-> xs]
JDict(d) == [k |-> "dict", d |-> d]

\* keys of a findings record, in the order the records are written
DictKeys == <<"type", "tags", "targets", "integration_points", "datastores",
              "coupling", "target">>

EmptyFields == [type |-> JAbsent, tags |-> JAbsent, targets |-> JAbsent,
                integration_points |-> JAbsent, datastores |-> JAbsent,
                coupling |-> JAbsent, target |-> JAbsent]

\* dict.get(key): None for a missing key
Get(item, key) == IF item.d[key] = JAbsent THEN JNull ELSE item.d[key]

\* dict.get(key, default)
GetDefault(item, key, default) ==
    IF item.d[key] = JAbsent THEN default ELSE item.d[key]

\* keys present in a dict, in insertion order (iteration over a dict)
RECURSIVE PresentKeys(_, _)
PresentKeys(item, i) ==
    IF i > Len(DictKeys) THEN <<>>
    ELSE (IF item.d[DictKeys[i]] = JAbsent THEN <<>>
          ELSE <<JStr(DictKeys[i])>>) \o PresentKeys(item, i + 1)

\* Python truth value
Truthy(v) ==
    CASE v.k = "null" -> FALSE
      [] v.k = "num" -> v.n # 0
      [] v.k = "str" -> v.s # ""
      [] v.k = "list" -> v.xs # <<>>
      [] v.k = "dict" -> PresentKeys(v, 1) # <<>>
      [] OTHER -> FALSE

\* Python "a or b"
Or(a, b) == IF Truthy(a) THEN a ELSE b

\* str.lower(), on the strings of the model that are not already lowercase
LowerTable ==
    [s \in {"Metadata", "APP_TO_DB_INTEGRATION", "App_To_App_Integration",
            "Tight", "TIGHT", "Loose", "MySQL", "None", "NONE", "Demo",
            "PG", "A", "N", "<Repr>"} |->
        CASE s = "Metadata" -> "metadata"
          [] s = "APP_TO_DB_INTEGRATION" -> "app_to_db_integration"
          [] s = "App_To_App_Integration" -> "app_to_app_integration"
          [] s = "Tight" -> "tight"
          [] s = "TIGHT" -> "tight"
          [] s = "Loose" -> "loose"
          [] s = "MySQL" -> "mysql"
          [] s = "None" -> "none"
          [] s = "NONE" -> "none"
          [] s = "Demo" -> "demo"
          [] s = "PG" -> "pg"
          [] s = "A" -> "a"
          [] s = "N" -> "n"
          [] s = "<Repr>" -> "<repr>"]

Lower(s) == IF s \in DOMAIN LowerTable THEN LowerTable[s] ELSE s

\* the characters of a string (iteration over a str)
CharsTable ==
    [s \in {"A2", "pg", "None", "not-a-list"} |->
        CASE s = "A2" -> <<"A", "2">>
          [] s = "pg" -> <<"p", "g">>
          [] s = "None" -> <<"N", "o", "n", "e">>
          [] s = "not-a-list" -> <<"n", "o", "t", "-", "a", "-", "l", "i", "s", "t">>]

Chars(s) == IF s \in DOMAIN CharsTable THEN CharsTable[s]
            ELSE IF s = "" THEN <<>> ELSE <<s>>

\* str(v); the repr of a list or dict is one opaque string
Str(v) ==
    CASE v.k = "str" -> v.s
      [] v.k = "null" -> "None"
      [] v.k = "num" -> IF v.n = 0 THEN "0" ELSE IF v.n = 1 THEN "1" ELSE "5"
      [] OTHER -> "<Repr>"

\* iter(v): the elements a for loop visits; ok = FALSE is TypeError
Iter(v) ==
    CASE v.k = "list" -> [ok |-> TRUE, xs |-> v.xs]
      [] v.k = "str" -> [ok |-> TRUE, xs |-> [i \in DOMAIN Chars(v.s) |-> JStr(Chars(v.s)[i])]]
      [] v.k = "dict" -> [ok |-> TRUE, xs |-> PresentKeys(v, 1)]
      [] OTHER -> [ok |-> FALSE, xs |-> <<>>]

\* json.loads on the strings of the model; ok = FALSE is a decode error
JsonLoads(s) ==
    CASE s = "{}" -> [ok |-> TRUE, v |-> JDict(EmptyFields)]
      [] s = "[]" -> [ok |-> TRUE, v |-> JList(<<>>)]
      [] s = "5" -> [ok |-> TRUE, v |-> JNum(5)]
      [] s = "null" -> [ok |-> TRUE, v |-> JNull]
      [] s = "[{\"type\":\"metadata\",\"tags\":[\"Demo\"]}]" ->
            [ok |-> TRUE,
             v |-> JList(<<JDict([EmptyFields EXCEPT
                                    !.type = JStr("metadata"),
                                    !.tags = JList(<<JStr("Demo")>>)])>>)]
      [] s = "{\"type\":\"app_to_db_integration\",\"datastores\":[\"PG\"]}" ->
            [ok |-> TRUE,
             v |-> JDict([EmptyFields EXCEPT
                            !.type = JStr("app_to_db_integration"),
                            !.datastores = JList(<<JStr("PG")>>)])]
      [] OTHER -> [ok |-> FALSE, v |-> JNull]

\* code-point order of the strings that can become tags (sorted())
StrRank ==
    <<"", "-", "0", "1", "5", "<repr>", "a", "b", "demo", "i", "l", "n",
      "none", "o", "s", "t", "x">>

\* sorted(set(xs)) for a list of strings
RECURSIVE SortedFrom(_, _)
SortedFrom(S, i) ==
    IF i > Len(StrRank) THEN <<>>
    ELSE (IF StrRank[i] \in S THEN <<StrRank[i]>> ELSE <<>>) \o SortedFrom(S, i + 1)

SortedSet(xs) == SortedFrom({xs[i] : i \in DOMAIN xs}, 1)


-----------------------------------------------------------------------------
(***************************************************************************)
(* Integration model extractor (assessment.py, _parse_findings and         *)
(* _extract_integration_model).                                            *)
(***************************************************************************)

\* normalise a findings value of any shape to a list of records
_parse_findings(raw) ==
    CASE raw.k = "null" -> <<>>
      [] raw.k = "list" -> raw.xs
      [] raw.k = "dict" -> <<raw>>
      [] raw.k = "str" ->
            LET parsed == JsonLoads(raw.s)
            IN  IF ~parsed.ok THEN <<>>
                ELSE IF parsed.v.k = "list" THEN parsed.v.xs
                ELSE IF parsed.v.k = "dict" THEN <<parsed.v>>
                ELSE <<>>
      [] OTHER -> <<>>

\* outcome of a call that raised: nothing is returned
Raised == [raised |-> TRUE, app_links |-> <<>>, db_links |-> <<>>, tags |-> <<>>]

\* [str(t).lower() for t in raw_tags if t]
RECURSIVE TagList(_)
TagList(xs) ==
    IF xs = <<>> THEN <<>>
    ELSE (IF Truthy(Head(xs)) THEN <<Lower(Str(Head(xs)))>> ELSE <<>>)
         \o TagList(Tail(xs))

\* mutant of MetadataTags: the isinstance(raw_tags, list) test is dropped
MetadataTags_NoListTest(item) ==
    LET raw_tags == Or(Get(item, "tags"), JList(<<>>))
    IN  IF Iter(raw_tags).ok THEN TagList(Iter(raw_tags).xs) ELSE <<>>

\* the "metadata" branch: tags contributed by one record
MetadataTags(item) ==
    LET raw_tags == Or(Get(item, "tags"), JList(<<>>))
    IN  IF raw_tags.k = "list" THEN TagList(raw_tags.xs) ELSE <<>>

\* the loop over integration_points: one link per dict with a truthy target
RECURSIVE PointLinks(_, _)
PointLinks(points, item) ==
    IF points = <<>> THEN <<>>
    ELSE LET p == Head(points)
         IN  (IF p.k = "dict" /\ Truthy(Get(p, "target"))
              THEN <<[target |-> Str(Get(p, "target")),
                      coupling |-> Lower(Str(Or(Or(Get(p, "coupling"),
                                                   Get(item, "coupling")),
                                                JStr("loose"))))]>>
              ELSE <<>>)
             \o PointLinks(Tail(points), item)

\* the loop over targets: one link per element, none filtered
RECURSIVE TargetLinks(_, _)
TargetLinks(ts, item) ==
    IF ts = <<>> THEN <<>>
    ELSE <<[target |-> Str(Head(ts)),
            coupling |-> Lower(Str(Or(Get(item, "coupling"), JStr("loose"))))]>>
         \o TargetLinks(Tail(ts), item)

\* the "app_to_app_integration" branch; ok = FALSE when the loop raises
AppLinksOf(item) ==
    LET points == Get(item, "integration_points")
    IN  IF points.k = "list" /\ Truthy(points)
        THEN [ok |-> TRUE, links |-> PointLinks(points.xs, item)]
        ELSE LET it == Iter(Or(Get(item, "targets"), JList(<<>>)))
             IN  IF it.ok THEN [ok |-> TRUE, links |-> TargetLinks(it.xs, item)]
                 ELSE [ok |-> FALSE, links |-> <<>>]

\* mutant of DatastoreLinks: "none" is compared before lowercasing
RECURSIVE DatastoreLinks_CaseSensitiveNone(_, _)
DatastoreLinks_CaseSensitiveNone(ds, coupling) ==
    IF ds = <<>> THEN <<>>
    ELSE (IF Str(Head(ds)) # "" /\ Str(Head(ds)) # "none"
          THEN <<[datastore |-> Lower(Str(Head(ds))), coupling |-> coupling]>>
          ELSE <<>>)
         \o DatastoreLinks_CaseSensitiveNone(Tail(ds), coupling)

\* the loop over datastores: lowercased, "" and "none" dropped
RECURSIVE DatastoreLinks(_, _)
DatastoreLinks(ds, coupling) ==
    IF ds = <<>> THEN <<>>
    ELSE (IF Lower(Str(Head(ds))) # "" /\ Lower(Str(Head(ds))) # "none"
          THEN <<[datastore |-> Lower(Str(Head(ds))), coupling |-> coupling]>>
          ELSE <<>>)
         \o DatastoreLinks(Tail(ds), coupling)

\* the "app_to_db_integration" branch; ok = FALSE when the loop raises
DbLinksOf(item) ==
    LET coupling == Lower(Str(Or(Get(item, "coupling"), JStr("loose"))))
        it == Iter(Or(Get(item, "datastores"), JList(<<>>)))
    IN  IF it.ok THEN [ok |-> TRUE, links |-> DatastoreLinks(it.xs, coupling)]
        ELSE [ok |-> FALSE, links |-> <<>>]

\* mutant of ExtractItem: an item that is not a dict is not skipped, and
\* reading its type raises
ExtractItem_NoDictTest(acc, item) ==
    IF acc.raised THEN acc
    ELSE IF item.k # "dict" THEN Raised
    ELSE LET ftype == Lower(Str(GetDefault(item, "type", JStr(""))))
         IN  CASE ftype = "metadata" ->
                    [acc EXCEPT !.tags = @ \o MetadataTags(item)]
               [] ftype = "app_to_app_integration" ->
                    IF AppLinksOf(item).ok
                    THEN [acc EXCEPT !.app_links = @ \o AppLinksOf(item).links]
                    ELSE Raised
               [] ftype = "app_to_db_integration" ->
                    IF DbLinksOf(item).ok
                    THEN [acc EXCEPT !.db_links = @ \o DbLinksOf(item).links]
                    ELSE Raised
               [] OTHER -> acc

\* the body of the loop over findings, for one item
ExtractItem(acc, item) ==
    IF acc.raised \/ item.k # "dict" THEN acc
    ELSE LET ftype == Lower(Str(GetDefault(item, "type", JStr(""))))
         IN  CASE ftype = "metadata" ->
                    [acc EXCEPT !.tags = @ \o MetadataTags(item)]
               [] ftype = "app_to_app_integration" ->
                    IF AppLinksOf(item).ok
                    THEN [acc EXCEPT !.app_links = @ \o AppLinksOf(item).links]
                    ELSE Raised
               [] ftype = "app_to_db_integration" ->
                    IF DbLinksOf(item).ok
                    THEN [acc EXCEPT !.db_links = @ \o DbLinksOf(item).links]
                    ELSE Raised
               [] OTHER -> acc

RECURSIVE ExtractLoop(_, _)
ExtractLoop(acc, findings) ==
    IF findings = <<>> THEN acc
    ELSE ExtractLoop(ExtractItem(acc, Head(findings)), Tail(findings))

_extract_integration_model(raw) ==
    LET acc == ExtractLoop([raised |-> FALSE, app_links |-> <<>>,
                            db_links |-> <<>>, tags |-> <<>>],
                           _parse_findings(raw))
    IN  IF acc.raised THEN Raised
        ELSE [acc EXCEPT !.tags = SortedSet(acc.tags)]

-----------------------------------------------------------------------------
(***************************************************************************)
(* Calls of _extract_integration_model on findings values of every shape.  *)
(***************************************************************************)

\* longest findings list drawn as an argument
MaxFindings == 2

Rec(type) == [EmptyFields EXCEPT !.type = type]

Point(target, coupling) ==
    JDict([EmptyFields EXCEPT !.target = target, !.coupling = coupling])

\* items that are not records
NonDictItems == {JNull, JNum(1), JStr("x")}

UnknownItems == {JDict(Rec(JStr("unknown"))), JDict(Rec(JAbsent))}

MetadataItems ==
    {JDict([Rec(JStr("metadata")) EXCEPT !.tags = t]) :
        t \in {JStr("not-a-list"), JNum(1),
               JList(<<JStr("Demo"), JStr("b")>>),
               JList(<<JStr("b"), JStr(""), JNull, JNum(0), JStr("a")>>)}}
    \cup {JDict([Rec(JStr("Metadata")) EXCEPT !.tags = JList(<<JStr("x"), JStr("Demo")>>)])}

AppToAppItems ==
    {JDict(Rec(JStr("app_to_app_integration"))),
     JDict([Rec(JStr("app_to_app_integration")) EXCEPT
              !.integration_points = JList(<<Point(JStr("A2"), JStr("Tight"))>>)]),
     JDict([Rec(JStr("app_to_app_integration")) EXCEPT
              !.integration_points = JList(<<Point(JAbsent, JStr("tight")), JNum(1),
                                            Point(JStr("EXT"), JAbsent),
                                            Point(JNum(5), JList(<<>>))>>),
              !.targets = JList(<<JStr("A2")>>),
              !.coupling = JStr("TIGHT")]),
     JDict([Rec(JStr("app_to_app_integration")) EXCEPT
              !.integration_points = JList(<<>>),
              !.targets = JList(<<JStr("A2"), JNull>>)]),
     JDict([Rec(JStr("app_to_app_integration")) EXCEPT
              !.integration_points = JStr("x"),
              !.targets = JStr("A2")]),
     JDict([Rec(JStr("app_to_app_integration")) EXCEPT !.targets = JNum(5)]),
     JDict([Rec(JStr("app_to_app_integration")) EXCEPT !.targets = JNum(0)]),
     JDict([Rec(JStr("app_to_app_integration")) EXCEPT
              !.targets = JDict(Rec(JStr("x"))), !.coupling = JNum(1)]),
     JDict([Rec(JStr("App_To_App_Integration")) EXCEPT
              !.targets = JList(<<JStr("EXT")>>), !.coupling = JStr("Loose")])}

AppToDbItems ==
    {JDict(Rec(JStr("app_to_db_integration"))),
     JDict([Rec(JStr("app_to_db_integration")) EXCEPT
              !.datastores = JList(<<JStr("MySQL"), JStr("none")>>),
              !.coupling = JStr("Tight")]),
     JDict([Rec(JStr("app_to_db_integration")) EXCEPT
              !.datastores = JList(<<JStr("NONE"), JNull, JStr(""), JStr("pg")>>)]),
     JDict([Rec(JStr("app_to_db_integration")) EXCEPT !.datastores = JStr("None")]),
     JDict([Rec(JStr("app_to_db_integration")) EXCEPT
              !.datastores = JList(<<JStr("pg")>>), !.coupling = JStr("medium")]),
     JDict([Rec(JStr("app_to_db_integration")) EXCEPT
              !.datastores = JStr("pg"), !.coupling = JNum(0)]),
     JDict([Rec(JStr("app_to_db_integration")) EXCEPT !.datastores = JNum(5)]),
     JDict([Rec(JStr("app_to_db_integration")) EXCEPT
              !.datastores = JList(<<JNum(1), JList(<<>>)>>)]),
     JDict([Rec(JStr("APP_TO_DB_INTEGRATION")) EXCEPT
              !.datastores = JList(<<JStr("PG")>>), !.coupling = JStr("tight")])}

FindingItems ==
    NonDictItems \cup UnknownItems \cup MetadataItems \cup AppToAppItems
    \cup AppToDbItems

\* all lists over S of length at most n
RECURSIVE SeqsUpTo(_, _)
SeqsUpTo(S, n) ==
    IF n = 0 THEN {<<>>}
    ELSE LET shorter == SeqsUpTo(S, n - 1)
         IN  shorter \cup {Append(xs, x) : xs \in shorter, x \in S}

\* findings stored as a JSON string
FindingStrings ==
    {"{}", "not json", "[]", "5", "null",
     "[{\"type\":\"metadata\",\"tags\":[\"Demo\"]}]",
     "{\"type\":\"app_to_db_integration\",\"datastores\":[\"PG\"]}"}

\* findings values of every shape, lists of at most max_len items
FindingsInputs(max_len) ==
    {JNull, JNum(5), JDict(EmptyFields)}
    \cup {JStr(s) : s \in FindingStrings}
    \cup {x \in FindingItems : x.k = "dict"}
    \cup {JList(xs) : xs \in SeqsUpTo(FindingItems, max_len)}

\* values of the variables a specification does not use
ScanIdle == token = FALSE /\ scan_runs = <<>> /\ requests = <<>> /\ jobs = <<>>
ExtractIdle == findings_raw = JNull /\ extract_out = NoCall
ClassifyIdle == cls_in = NoCall /\ cls_out = NoCall
OverrideIdle == ovr_in = NoCall /\ ovr_out = NoCall
AssessIdle == applications = <<>> /\ bundles_resp = NoCall /\ graph_resp = NoCall

InitExtract ==
    /\ findings_raw \in FindingsInputs(MaxFindings)
    /\ extract_out = NoCall
    /\ ScanIdle /\ ClassifyIdle /\ OverrideIdle /\ AssessIdle

\* one call of _extract_integration_model(findings_raw)
ExtractCall ==
    /\ extract_out = NoCall
    /\ extract_out' = _extract_integration_model(findings_raw)
    /\ UNCHANGED <<token, scan_runs, requests, jobs, findings_raw, cls_in, cls_out,
                   ovr_in, ovr_out, applications, bundles_resp, graph_resp>>

NextExtract == ExtractCall

SpecExtract == InitExtract /\ [][NextExtract]_vars

\* C3: _extract_integration_model never raises, whatever the shape of the
\* findings value, including records whose tags, targets, datastores or
\* integration_points are not lists.
C3_NeverRaises == extract_out # NoCall => ~extract_out.raised

\* the six inputs named by C4
C4Inputs ==
    {JNull, JStr("{}"), JStr("not json"), JList(<<>>),
     JList(<<JDict(Rec(JStr("unknown")))>>),
     JDict([Rec(JStr("metadata")) EXCEPT !.tags = JStr("not-a-list")])}

\* C4: on None, "{}", "not json", [], [{"type":"unknown"}] and
\* {"type":"metadata","tags":"not-a-list"} the extractor returns, without
\* raising, a model whose app_links, db_links and tags are all empty.
C4_EmptyOnListedInputs ==
    (extract_out # NoCall /\ findings_raw \in C4Inputs) =>
        /\ ~extract_out.raised
        /\ extract_out.app_links = <<>>
        /\ extract_out.db_links = <<>>
        /\ extract_out.tags = <<>>

C4_Witness ==
    /\ extract_out # NoCall
    /\ findings_raw = JDict([Rec(JStr("metadata")) EXCEPT !.tags = JStr("not-a-list")])
    /\ extract_out.tags = <<>>

\* strings that spell "none" in some letter case
NoneSpellings == {"none", "None", "NONE"}

\* C8: no db_link returned by the extractor has a datastore spelling "none"
\* in any letter case, and every emitted datastore name is lowercase.
C8_NoNoneDatastore ==
    (extract_out # NoCall /\ ~extract_out.raised) =>
        \A i \in DOMAIN extract_out.db_links :
            /\ extract_out.db_links[i].datastore \notin NoneSpellings
            /\ Lower(extract_out.db_links[i].datastore) = extract_out.db_links[i].datastore

\* a call whose datastores list holds "NONE" next to a real name
C8_Witness ==
    /\ extract_out # NoCall
    /\ findings_raw = JList(<<JDict([Rec(JStr("app_to_db_integration")) EXCEPT
              !.datastores = JList(<<JStr("NONE"), JNull, JStr(""), JStr("pg")>>)])>>)
    /\ extract_out.db_links = <<[datastore |-> "pg", coupling |-> "loose"]>>

-----------------------------------------------------------------------------
(***************************************************************************)
(* Pattern classifier (services/classifier.py).  Scores and confidence are *)
(* in hundredths, risk in tenths.  The argument of classify_repo is        *)
(* represented by what the regular expressions find in it: the set of      *)
(* SIGNALS entries that match the combined text and the three tests of     *)
(* _calc_risk.                                                             *)
(***************************************************************************)

Min(a, b) == IF a <= b THEN a ELSE b
Max(a, b) == IF a >= b THEN a ELSE b

PatternIds == <<"P1", "P2", "P3", "P4", "P5">>

PATTERNS ==
    [p \in {"P1", "P2", "P3", "P4", "P5"} |->
        CASE p = "P1" -> [id |-> "P1", name |-> "GCE Replatform", gcp_target |-> "GCE"]
          [] p = "P2" -> [id |-> "P2", name |-> "Load Balancer Migration",
                          gcp_target |-> "Cloud Load Balancing"]
          [] p = "P3" -> [id |-> "P3", name |-> "Database Rebuild", gcp_target |-> "Cloud SQL"]
          [] p = "P4" -> [id |-> "P4", name |-> "PCF -> GKE", gcp_target |-> "GKE"]
          [] p = "P5" -> [id |-> "P5", name |-> "Messaging Rebuild", gcp_target |-> "Pub/Sub"]]

\* (regex, pattern_id, weight) in declaration order
SIGNALS ==
  <<
    [re |-> "terraform", pattern_id |-> "P1", weight |-> 30],
    [re |-> "\\.tf$", pattern_id |-> "P1", weight |-> 30],
    [re |-> "github.?actions|\\.github", pattern_id |-> "P1", weight |-> 20],
    [re |-> "azure.?vm|azurerm_virtual", pattern_id |-> "P1", weight |-> 40],
    [re |-> "startup.?script|systemd|service.?unit", pattern_id |-> "P1", weight |-> 30],
    [re |-> "nginx|apache|iis", pattern_id |-> "P1", weight |-> 25],
    [re |-> "main\\.tf|variables\\.tf", pattern_id |-> "P1", weight |-> 35],
    [re |-> "app.?server|web.?server", pattern_id |-> "P1", weight |-> 20],
    [re |-> "load.?balanc", pattern_id |-> "P2", weight |-> 40],
    [re |-> "azure_lb|azurerm_lb", pattern_id |-> "P2", weight |-> 50],
    [re |-> "backend.?pool|frontend.?ip", pattern_id |-> "P2", weight |-> 40],
    [re |-> "health.?probe|health.?check", pattern_id |-> "P2", weight |-> 30],
    [re |-> "ingress|ssl.?cert|https", pattern_id |-> "P2", weight |-> 20],
    [re |-> "traffic.?manager|app.?gateway", pattern_id |-> "P2", weight |-> 35],
    [re |-> "port.*80|port.*443", pattern_id |-> "P2", weight |-> 15],
    [re |-> "sql|database|db", pattern_id |-> "P3", weight |-> 25],
    [re |-> "azure.?sql|azurerm_sql|mssql", pattern_id |-> "P3", weight |-> 50],
    [re |-> "postgres|postgresql|pg", pattern_id |-> "P3", weight |-> 30],
    [re |-> "mysql|mariadb", pattern_id |-> "P3", weight |-> 30],
    [re |-> "flyway|liquibase|alembic|migrate", pattern_id |-> "P3", weight |-> 30],
    [re |-> "connectionstring|datasource.url", pattern_id |-> "P3", weight |-> 35],
    [re |-> "dms|data.?migration|replicat", pattern_id |-> "P3", weight |-> 40],
    [re |-> "entity.?framework|hibernate|jpa", pattern_id |-> "P3", weight |-> 25],
    [re |-> "\\.sql$|schema\\.sql|init\\.sql", pattern_id |-> "P3", weight |-> 40],
    [re |-> "manifest\\.yml|cf.?manifest", pattern_id |-> "P4", weight |-> 60],
    [re |-> "buildpack|cloudfoundry|pcf", pattern_id |-> "P4", weight |-> 60],
    [re |-> "cf push|cf create", pattern_id |-> "P4", weight |-> 50],
    [re |-> "kubernetes|k8s|kubectl", pattern_id |-> "P4", weight |-> 40],
    [re |-> "deployment\\.yaml|service\\.yaml", pattern_id |-> "P4", weight |-> 40],
    [re |-> "dockerfile|docker-compose", pattern_id |-> "P4", weight |-> 35],
    [re |-> "helm|helmfile", pattern_id |-> "P4", weight |-> 40],
    [re |-> "spring.?boot|spring.?cloud", pattern_id |-> "P4", weight |-> 20],
    [re |-> "\\.jar$|mvn|gradle", pattern_id |-> "P4", weight |-> 15],
    [re |-> "service.?bus|servicebus", pattern_id |-> "P5", weight |-> 60],
    [re |-> "event.?hub|eventhub", pattern_id |-> "P5", weight |-> 50],
    [re |-> "azure.*messag|amqp", pattern_id |-> "P5", weight |-> 50],
    [re |-> "queue|topic|subscription", pattern_id |-> "P5", weight |-> 30],
    [re |-> "pub.?sub|pubsub|google.*pub", pattern_id |-> "P5", weight |-> 30],
    [re |-> "kafka|rabbitmq|activemq", pattern_id |-> "P5", weight |-> 25],
    [re |-> "message.?flow|integration.?flow", pattern_id |-> "P5", weight |-> 35],
    [re |-> "dead.?letter|dlq", pattern_id |-> "P5", weight |-> 40],
    [re |-> "@serviceactivator|@messaginggateway", pattern_id |-> "P5", weight |-> 40]
  >>

\* mutant of ScoreLoop: only the signals kept in signals_hit are scored
RECURSIVE ScoreLoop_FirstTwenty(_, _, _)
ScoreLoop_FirstTwenty(scores, fired, i) ==
    IF i > Len(SIGNALS) THEN scores
    ELSE ScoreLoop_FirstTwenty(
            IF i \in fired /\ Cardinality({j \in fired : j < i}) < 20
            THEN [scores EXCEPT ![SIGNALS[i].pattern_id] =
                                    Min(100, @ + SIGNALS[i].weight)]
            ELSE scores,
            fired, i + 1)

\* the scoring loop over SIGNALS[i..]: weight added, capped at 1.0
RECURSIVE ScoreLoop(_, _, _)
ScoreLoop(scores, fired, i) ==
    IF i > Len(SIGNALS) THEN scores
    ELSE ScoreLoop(IF i \in fired
                   THEN [scores EXCEPT ![SIGNALS[i].pattern_id] =
                                           Min(100, @ + SIGNALS[i].weight)]
                   ELSE scores,
                   fired, i + 1)

\* signals_hit, as indexes into SIGNALS, in declaration order
RECURSIVE HitLoop(_, _)
HitLoop(fired, i) ==
    IF i > Len(SIGNALS) THEN <<>>
    ELSE (IF i \in fired THEN <<i>> ELSE <<>>) \o HitLoop(fired, i + 1)

\* mutant of ArgMax: the last key, in insertion order, with the top score
RECURSIVE ArgMax_LastMax(_, _, _)
ArgMax_LastMax(scores, keys, i) ==
    IF i = Len(keys) THEN keys[i]
    ELSE LET rest == ArgMax_LastMax(scores, keys, i + 1)
         IN  IF scores[keys[i]] > scores[rest] THEN keys[i] ELSE rest

\* max(scores, key=...): the first key, in insertion order, with the top score
RECURSIVE ArgMax(_, _, _)
ArgMax(scores, keys, i) ==
    IF i = Len(keys) THEN keys[i]
    ELSE LET rest == ArgMax(scores, keys, i + 1)
         IN  IF scores[keys[i]] >= scores[rest] THEN keys[i] ELSE rest

\* mutant of _calc_risk: the score is on the scale of 100 of the graph's bands
_calc_risk_Scaled(in, pattern_id) ==
    LET r0 == 400
        r1 == r0 + (IF pattern_id = "P3" THEN 200 ELSE 0)
        r2 == r1 + (IF pattern_id \in {"P4", "P5"} THEN 150 ELSE 0)
        r3 == r2 + (IF in.secret THEN 50 ELSE 0)
        r4 == r3 + (IF in.legacy THEN 50 ELSE 0)
        r5 == r4 + (IF in.sql_file THEN 50 ELSE 0)
    IN  Min(1000, r5)

\* heuristic risk score
_calc_risk(in, pattern_id) ==
    LET r0 == 40
        r1 == r0 + (IF pattern_id = "P3" THEN 20 ELSE 0)
        r2 == r1 + (IF pattern_id = "P4" THEN 15 ELSE 0)
        r3 == r2 + (IF pattern_id = "P5" THEN 15 ELSE 0)
        r4 == r3 + (IF in.secret THEN 5 ELSE 0)
        r5 == r4 + (IF in.legacy THEN 5 ELSE 0)
        r6 == r5 + (IF in.sql_file THEN 5 ELSE 0)
    IN  Min(100, r6)

\* mutant of Confidence: the cap at 0.99 is dropped
Confidence_NoCap(best_score) == best_score

\* confidence = min(0.99, best_score)
Confidence(best_score) == Min(99, best_score)

\* mutant of NothingScored: the threshold is 0.2 instead of 0.1
NothingScored_Threshold20(best_score) == best_score < 20

\* the test of the fallback branch
NothingScored(best_score) == best_score < 10

\* the findings _generate_findings can report, in the order it tests them
\* (the long dash of the texts is written -)
FindingTexts ==
    <<"Code contains TODO/FIXME markers",
      "Hardcoded localhost references detected - update for GCP",
      "Azure-specific hostnames detected - must be replaced with GCP endpoints",
      "Azure connection strings present - update to Cloud SQL / GCP credentials",
      "ServiceNow references present - configure integration",
      "Jenkins pipeline detected - will be updated for GCP deploy",
      "No Terraform files found - will be generated by migration engine",
      "No GitHub Actions found - CI/CD pipeline will be generated",
      "PCF app without Dockerfile - Dockerfile will be generated for GKE",
      "MSSQL/Azure SQL detected - DMS heterogeneous migration required">>

\* the findings: those of the eight tests that do not look at the pattern
\* (in.found, as indexes), then the two that do; at most ten
_generate_findings(in, pattern_id) ==
    LET found == SelectSeq(SubSeq(FindingTexts, 1, 8),
                           LAMBDA text : \E i \in in.found : FindingTexts[i] = text)
        findings ==
            found
            \o (IF pattern_id = "P4" /\ ~in.dockerfile THEN <<FindingTexts[9]>> ELSE <<>>)
            \o (IF pattern_id = "P3" /\ in.mssql THEN <<FindingTexts[10]>> ELSE <<>>)
    IN  SubSeq(findings, 1, Min(10, Len(findings)))

classify_repo(in) ==
    LET scores == ScoreLoop([p \in DOMAIN PATTERNS |-> 0], in.fired, 1)
        signals_hit == HitLoop(in.fired, 1)
        max_pid == ArgMax(scores, PatternIds, 1)
        best_pid == IF NothingScored(scores[max_pid]) THEN "P1" ELSE max_pid
        best_score == IF NothingScored(scores[max_pid]) THEN 15 ELSE scores[max_pid]
    IN  [pattern_id |-> best_pid,
         pattern_name |-> PATTERNS[best_pid].name,
         gcp_target |-> PATTERNS[best_pid].gcp_target,
         confidence |-> Confidence(best_score),
         scores |-> scores,
         signals_hit |-> SubSeq(signals_hit, 1, Min(20, Len(signals_hit))),
         risk_score |-> _calc_risk(in, best_pid),
         complexity |-> IF in.lines < 500 THEN "low"
                        ELSE IF in.lines > 5000 THEN "high" ELSE "medium",
         findings |-> _generate_findings(in, best_pid)]

\* largest number of signals that match one input
MaxFired == 2

\* the elements of a set as a list
RECURSIVE SetToSeq(_)
SetToSeq(S) ==
    IF S = {} THEN <<>>
    ELSE LET x == CHOOSE y \in S : TRUE
         IN  <<x>> \o SetToSeq(S \ {x})

\* the increasing lists of at most k indexes out of 1..n
RECURSIVE IndexLists(_, _)
IndexLists(n, k) ==
    IF k = 0 THEN {<<>>}
    ELSE LET shorter == IndexLists(n, k - 1)
         IN  shorter \cup
             UNION {{Append(t, j) : j \in (IF t = <<>> THEN 1 ELSE t[Len(t)] + 1)..n} :
                        t \in shorter}

\* all subsets of S with at most k elements
SubsetsUpTo(S, k) ==
    LET xs == SetToSeq(S)
    IN  {{xs[t[i]] : i \in DOMAIN t} : t \in IndexLists(Len(xs), k)}

\* index of the signal "sql|database|db"; it matches whenever the text
\* contains "sql", so whenever signal 17 or 24 matches or a path ends in .sql
SqlSignal == 16

\* texts in which more than twenty signals match: the first twenty and one
\* of P5, the first twenty-one, and all of them
ManyFired == {(1..20) \cup {34}, 1..21, 1..Len(SIGNALS)}

\* the inputs on which at most max_fired signals match, and those of ManyFired
ClassifyInputs(max_fired) ==
    {in \in [fired : SubsetsUpTo(1..Len(SIGNALS), max_fired) \cup ManyFired,
             secret : BOOLEAN, legacy : BOOLEAN, sql_file : BOOLEAN,
             found : {{7, 8}}, dockerfile : {FALSE}, mssql : {FALSE}, lines : {120}] :
        /\ in.sql_file => SqlSignal \in in.fired
        /\ (17 \in in.fired \/ 24 \in in.fired) => SqlSignal \in in.fired}

InitClassify ==
    /\ cls_in \in ClassifyInputs(MaxFired)
    /\ cls_out = NoCall
    /\ ScanIdle /\ ExtractIdle /\ OverrideIdle /\ AssessIdle

\* one call of classify_repo
ClassifyCall ==
    /\ cls_out = NoCall
    /\ cls_out' = classify_repo(cls_in)
    /\ UNCHANGED <<token, scan_runs, requests, jobs, findings_raw, extract_out,
                   cls_in, ovr_in, ovr_out, applications, bundles_resp, graph_resp>>

NextClassify == ClassifyCall

SpecClassify == InitClassify /\ [][NextClassify]_vars

\* C5: whatever signals match and whatever risk increments apply, the result
\* of classify_repo has confidence in [0.0, 0.99] and risk_score in [1.0, 10.0].
C5_ConfidenceAndRiskInRange ==
    cls_out # NoCall =>
        /\ 0 <= cls_out.confidence /\ cls_out.confidence <= 99
        /\ 10 <= cls_out.risk_score /\ cls_out.risk_score <= 100

\* a call in which two signals of weight 0.6 take the score of P4 to the cap
\* 1.0 and both risk increments of the content apply
C5_Witness ==
    /\ cls_out # NoCall
    /\ cls_in.fired = {25, 26}
    /\ cls_in.secret /\ cls_in.legacy
    /\ cls_out.pattern_id = "P4"
    /\ cls_out.scores["P4"] = 100
    /\ cls_out.confidence = 99
    /\ cls_out.risk_score = 65

\* the highest of the five scores
TopScore(scores) ==
    CHOOSE v \in {scores[p] : p \in DOMAIN scores} :
        \A p \in DOMAIN scores : scores[p] <= v

\* C6: when no signal matches, classify_repo returns P1 with confidence 0.15;
\* when at least one matches, the fallback is not taken: the pattern returned
\* is one with the top score, which is at least 0.15, and the confidence is
\* that score capped at 0.99.
C6_FallbackOnlyWithoutSignal ==
    cls_out # NoCall =>
        /\ cls_in.fired = {} =>
                cls_out.pattern_id = "P1" /\ cls_out.confidence = 15
        /\ cls_in.fired # {} =>
                /\ TopScore(cls_out.scores) >= 15
                /\ cls_out.scores[cls_out.pattern_id] = TopScore(cls_out.scores)
                /\ cls_out.confidence = Min(99, TopScore(cls_out.scores))

\* a call in which the only matching signal has the lowest weight, 0.15
C6_Witness ==
    /\ cls_out # NoCall
    /\ cls_in.fired = {15}
    /\ cls_out.pattern_id = "P2"
    /\ cls_out.confidence = 15

\* the signals of a category that matched
FiredOf(p) == {i \in cls_in.fired : SIGNALS[i].pattern_id = p}

\* sum of the weights of a set of signals
RECURSIVE WeightSum(_)
WeightSum(S) ==
    IF S = {} THEN 0
    ELSE LET i == CHOOSE j \in S : TRUE
         IN  SIGNALS[i].weight + WeightSum(S \ {i})

\* C23: each category's score is min(1.0, sum of the weights of its signals
\* that fire), 0.0 when none fires; signals_hit is the first 20 fired signals
\* in declaration order; the scores count every fired signal, those past the
\* 20th included.
C23_ScoresAreCappedSums ==
    cls_out # NoCall =>
        /\ \A p \in DOMAIN PATTERNS :
              cls_out.scores[p] =
                 Min(100, WeightSum(FiredOf(p)))
        /\ Len(cls_out.signals_hit) = Min(20, Cardinality(cls_in.fired))
        /\ \A k \in DOMAIN cls_out.signals_hit :
              /\ cls_out.signals_hit[k] \in cls_in.fired
              /\ Cardinality({i \in cls_in.fired : i < cls_out.signals_hit[k]}) = k - 1

\* twenty-one signals match; the twenty-first is the only one of P5 and is
\* scored although signals_hit leaves it out
C23_Witness ==
    /\ cls_out # NoCall
    /\ cls_in.fired = (1..20) \cup {34}
    /\ Len(cls_out.signals_hit) = 20
    /\ \A k \in DOMAIN cls_out.signals_hit : cls_out.signals_hit[k] # 34
    /\ cls_out.scores["P5"] = 60
    /\ cls_out.scores["P4"] = 0
    /\ cls_out.scores["P1"] = 100

\* position of a pattern in the declaration order
PatternRank(p) == CHOOSE k \in DOMAIN PatternIds : PatternIds[k] = p

-----------------------------------------------------------------------------
(***************************************************************************)
(* Instruction override (assessment.py, _apply_pattern_instructions).      *)
(* An instruction text is the list of its comma-separated segments; the    *)
(* content sample is represented by the set of keywords that occur in its  *)
(* lowercased text.                                                        *)
(***************************************************************************)

\* segments an instruction text is made of
Segments == {" ", "sql", " Kafka"}

\* str.strip() on the segments
Strip(k) == CASE k = " " -> "" [] k = " Kafka" -> "Kafka" [] OTHER -> k

\* str.lower() on the stripped segments
LowerKeyword(k) == IF k = "Kafka" THEN "kafka" ELSE k

\* keywords only the first of which are counted
KeywordCap == 50

\* [k.strip().lower() for k in text.split(",") if k.strip()]
RECURSIVE Keywords(_)
Keywords(text) ==
    IF text = <<>> THEN <<>>
    ELSE (IF Strip(Head(text)) # "" THEN <<LowerKeyword(Strip(Head(text)))>> ELSE <<>>)
         \o Keywords(Tail(text))

\* number of keywords of the list that occur in the content
RECURSIVE CountHits(_, _)
CountHits(kws, content) ==
    IF kws = <<>> THEN 0
    ELSE (IF Head(kws) \in content THEN 1 ELSE 0) + CountHits(Tail(kws), content)

\* scores[pid] after the loop over the instructions
KeywordHits(text, content) ==
    LET keywords == Keywords(text)
    IN  CountHits(SubSeq(keywords, 1, Min(KeywordCap, Len(keywords))), content)

\* mutant of StrongEnough: one keyword hit is enough to override
StrongEnough_OneHit(n) == n >= 1

\* the test that lets the instructions override the classifier
StrongEnough(n) == n >= 2

_apply_pattern_instructions(classified_pattern, content, instructions) ==
    LET scores == [pid \in DOMAIN instructions |-> KeywordHits(instructions[pid], content)]
        best == ArgMax(scores, PatternIds, 1)
    IN  IF StrongEnough(scores[best]) THEN best ELSE classified_pattern

\* total number of segments over the five instruction texts
MaxKeywords == 4

\* the contents of table pattern_instructions: one text per pattern
RECURSIVE InstructionMaps(_)
InstructionMaps(n) ==
    IF n = 0 THEN {[pid \in DOMAIN PATTERNS |-> <<>>]}
    ELSE LET fewer == InstructionMaps(n - 1)
         IN  fewer \cup {[m EXCEPT ![pid] = Append(@, seg)] :
                            m \in fewer, pid \in DOMAIN PATTERNS, seg \in Segments}

\* the classifier's pattern: the first category or a later one
ClassifiedPatterns == {"P1", "P4"}

InitOverride ==
    /\ ovr_in \in [classified : ClassifiedPatterns,
                   content : SUBSET {"sql", "kafka"},
                   instructions : InstructionMaps(MaxKeywords)]
    /\ ovr_out = NoCall
    /\ ScanIdle /\ ExtractIdle /\ ClassifyIdle /\ AssessIdle

\* one call of _apply_pattern_instructions
OverrideCall ==
    /\ ovr_out = NoCall
    /\ ovr_out' = [pattern |-> _apply_pattern_instructions(
                                  ovr_in.classified, ovr_in.content, ovr_in.instructions)]
    /\ UNCHANGED <<token, scan_runs, requests, jobs, findings_raw, extract_out,
                   cls_in, cls_out, ovr_in, applications, bundles_resp, graph_resp>>

NextOverride == OverrideCall

SpecOverride == InitOverride /\ [][NextOverride]_vars

\* keyword hits of category pid for the call's arguments
HitsOf(pid) == KeywordHits(ovr_in.instructions[pid], ovr_in.content)

\* the highest hit count over the five categories
MaxHits == CHOOSE n \in {HitsOf(p) : p \in DOMAIN PATTERNS} :
               \A p \in DOMAIN PATTERNS : HitsOf(p) <= n

\* the first category, in the order P1..P5, whose hit count is the highest
FirstWithMaxHits ==
    PatternIds[CHOOSE i \in 1..5 :
                  /\ HitsOf(PatternIds[i]) = MaxHits
                  /\ \A j \in 1..(i - 1) : HitsOf(PatternIds[j]) < MaxHits]

\* C7: the override changes the pattern only if some category has at least 2
\* keyword hits; with a maximum of at least 2 it returns the category with
\* the maximum, the first in the order P1..P5 on a tie; with a maximum below
\* 2 it returns the classifier's pattern.
C7_OverrideRule ==
    ovr_out # NoCall =>
        /\ ovr_out.pattern # ovr_in.classified =>
                \E p \in DOMAIN PATTERNS : HitsOf(p) >= 2
        /\ MaxHits >= 2 => ovr_out.pattern = FirstWithMaxHits
        /\ MaxHits < 2 => ovr_out.pattern = ovr_in.classified

\* a call where two categories tie at 2 hits and the classifier chose a third
C7_Witness ==
    /\ ovr_out # NoCall
    /\ HitsOf("P3") = 2 /\ HitsOf("P5") = 2
    /\ ovr_in.classified = "P4"
    /\ ovr_out.pattern = "P3"

-----------------------------------------------------------------------------
(***************************************************************************)
(* Bundle clusterer (assessment.py, bundles).  A row of applications is    *)
(* [id, pattern_id, findings_json]; findings_json is the value rows2list   *)
(* decoded from the stored text.                                           *)
(***************************************************************************)

\* application ids, in the order Python compares them as strings
AppIds ==
    <<"APP-001", "APP-002", "APP-003", "APP-004", "APP-005", "APP-006",
      "APP-007", "APP-008", "APP-009", "APP-010", "APP-011", "APP-012">>

\* run_id[:8] of the runs of the scan workflow
RunIdPrefixes == <<"0000000a", "0000000b", "0000000c", "0000000d">>

\* f"{run_id[:8]}-APP-{idx:03d}"
ScanAppId(run, idx) == RunIdPrefixes[run] \o "-" \o AppIds[idx]

\* the place of each id in the order Python compares strings: the ids of
\* the scan workflow by run and number, then the bare ones
IdRank ==
    LET count == (Len(RunIdPrefixes) + 1) * Len(AppIds)
        IdAt(k) ==
            LET r == (k - 1) \div Len(AppIds)
                i == ((k - 1) % Len(AppIds)) + 1
            IN  IF r < Len(RunIdPrefixes) THEN ScanAppId(r + 1, i) ELSE AppIds[i]
    IN  [id \in {IdAt(k) : k \in 1..count} |-> CHOOSE k \in 1..count : IdAt(k) = id]

IdIndex(id) == IdRank[id]

\* a < b on application ids
IdLess(a, b) == IdIndex(a) < IdIndex(b)

\* tuple(sorted((a, b)))
SortedPair(a, b) == IF IdLess(b, a) THEN <<b, a>> ELSE <<a, b>>

\* ids of the rows, in row order (the keys of app_map and neighbors)
RowIds(apps) == [i \in DOMAIN apps |-> apps[i].id]

IdSet(apps) == {apps[i].id : i \in DOMAIN apps}

\* neighbors and affinity_score before the first loop; a pair without an
\* entry in affinity_score reads as 0
EmptyGraph(apps) ==
    [neighbors |-> [a \in IdSet(apps) |-> {}],
     affinity |-> [key \in {SortedPair(a, b) : a, b \in IdSet(apps)} |-> 0]]

\* mutant of AddEdge: the weights of a pair's evidence add up
AddEdge_Sum(g, a, b, weight) ==
    [neighbors |-> [c \in DOMAIN g.neighbors |->
                        g.neighbors[c] \cup (IF c = a THEN {b} ELSE {})
                                       \cup (IF c = b THEN {a} ELSE {})],
     affinity |-> [g.affinity EXCEPT ![SortedPair(a, b)] = @ + weight]]

\* both neighbor sets and the pair's affinity updated for one piece of evidence
AddEdge(g, a, b, weight) ==
    [neighbors |-> [c \in DOMAIN g.neighbors |->
                        g.neighbors[c] \cup (IF c = a THEN {b} ELSE {})
                                       \cup (IF c = b THEN {a} ELSE {})],
     affinity |-> [g.affinity EXCEPT ![SortedPair(a, b)] = Max(@, weight)]]

\* mutant of AppLinkLoop: a tight app_link weighs as much as a shared datastore
RECURSIVE AppLinkLoop_TightFour(_, _, _)
AppLinkLoop_TightFour(g, app_id, links) ==
    IF links = <<>> THEN g
    ELSE LET link == Head(links)
         IN  AppLinkLoop_TightFour(IF link.target \notin DOMAIN g.neighbors THEN g
                                   ELSE AddEdge(g, app_id, link.target,
                                                IF link.coupling = "tight" THEN 4 ELSE 1),
                                   app_id, Tail(links))

\* the loop over model["app_links"] of one application
RECURSIVE AppLinkLoop(_, _, _)
AppLinkLoop(g, app_id, links) ==
    IF links = <<>> THEN g
    ELSE LET link == Head(links)
         IN  AppLinkLoop(IF link.target \notin DOMAIN g.neighbors THEN g
                         ELSE AddEdge(g, app_id, link.target,
                                      IF link.coupling = "tight" THEN 3 ELSE 1),
                         app_id, Tail(links))

\* mutant of SharesDatastore: the other application's link must be tight too
SharesDatastore_TightOnly(other_model, db_link) ==
    \E i \in DOMAIN other_model.db_links :
        /\ other_model.db_links[i].datastore = db_link.datastore
        /\ other_model.db_links[i].coupling = "tight"

\* db_link["datastore"] in other_dbs
SharesDatastore(other_model, db_link) ==
    db_link.datastore \in
        {other_model.db_links[i].datastore : i \in DOMAIN other_model.db_links}

\* the loop "for other in apps" for one tight db_link of application app_id
\* mutant of OtherLoop: only the applications read after app are compared
RECURSIVE OtherLoop_LaterOnly(_, _, _, _, _)
OtherLoop_LaterOnly(g, app_id, db_link, apps, i) ==
    IF i > Len(apps) THEN g
    ELSE OtherLoop_LaterOnly(
                   IF apps[i].id # app_id
                      /\ i > (CHOOSE k \in DOMAIN apps : apps[k].id = app_id)
                      /\ SharesDatastore(_extract_integration_model(apps[i].findings_json),
                                         db_link)
                   THEN AddEdge(g, app_id, apps[i].id, 4)
                   ELSE g,
                   app_id, db_link, apps, i + 1)

RECURSIVE OtherLoop(_, _, _, _, _)
OtherLoop(g, app_id, db_link, apps, i) ==
    IF i > Len(apps) THEN g
    ELSE OtherLoop(IF apps[i].id # app_id
                      /\ SharesDatastore(_extract_integration_model(apps[i].findings_json),
                                         db_link)
                   THEN AddEdge(g, app_id, apps[i].id, 4)
                   ELSE g,
                   app_id, db_link, apps, i + 1)

\* the loop over model["db_links"] of one application
RECURSIVE DbLinkLoop(_, _, _, _)
DbLinkLoop(g, app_id, db_links, apps) ==
    IF db_links = <<>> THEN g
    ELSE DbLinkLoop(IF Head(db_links).coupling = "tight"
                    THEN OtherLoop(g, app_id, Head(db_links), apps, 1)
                    ELSE g,
                    app_id, Tail(db_links), apps)

\* the loop "for app in apps" that fills neighbors and affinity_score
RECURSIVE BuildGraph(_, _, _)
BuildGraph(g, apps, i) ==
    IF i > Len(apps) THEN g
    ELSE LET model == _extract_integration_model(apps[i].findings_json)
             g1 == AppLinkLoop(g, apps[i].id, model.app_links)
             g2 == DbLinkLoop(g1, apps[i].id, model.db_links, apps)
         IN  BuildGraph(g2, apps, i + 1)

\* the orders in which a for loop can visit the elements of a set
RECURSIVE Orders(_)
Orders(S) ==
    IF S = {} THEN {<<>>}
    ELSE UNION {{<<x>> \o rest : rest \in Orders(S \ {x})} : x \in S}

\* the while loop over the stack; a set's iteration order is not fixed, so
\* the result is the set of [comp, visited] the loop can end with
RECURSIVE Traverse(_, _, _, _)
Traverse(neighbors, stack, comp, visited) ==
    IF stack = <<>> THEN {[comp |-> comp, visited |-> visited]}
    ELSE LET cur == stack[Len(stack)]
             rest == SubSeq(stack, 1, Len(stack) - 1)
             fresh == neighbors[cur] \ visited
         IN  UNION {Traverse(neighbors, rest \o pushed, Append(comp, cur),
                             visited \cup fresh) : pushed \in Orders(fresh)}

\* mutant of ComponentsFrom: an application already visited starts a
\* component of its own
RECURSIVE ComponentsFrom_NoVisitedTest(_, _, _, _, _)
ComponentsFrom_NoVisitedTest(neighbors, ids, i, visited, components) ==
    IF i > Len(ids) THEN {components}
    ELSE UNION {ComponentsFrom_NoVisitedTest(neighbors, ids, i + 1, t.visited,
                                             Append(components, t.comp)) :
                    t \in Traverse(neighbors, <<ids[i]>>, <<>>, visited \cup {ids[i]})}

\* the loop "for app_id in neighbors": the component lists it can produce
RECURSIVE ComponentsFrom(_, _, _, _, _)
ComponentsFrom(neighbors, ids, i, visited, components) ==
    IF i > Len(ids) THEN {components}
    ELSE IF ids[i] \in visited
         THEN ComponentsFrom(neighbors, ids, i + 1, visited, components)
         ELSE UNION {ComponentsFrom(neighbors, ids, i + 1, t.visited,
                                    Append(components, t.comp)) :
                        t \in Traverse(neighbors, <<ids[i]>>, <<>>, visited \cup {ids[i]})}

\* mutant of InsertBySize: c goes before the components of its own length
RECURSIVE InsertBySize_Unstable(_, _)
InsertBySize_Unstable(sorted, c) ==
    IF sorted = <<>> THEN <<c>>
    ELSE IF Len(Head(sorted)) > Len(c)
         THEN <<Head(sorted)>> \o InsertBySize_Unstable(Tail(sorted), c)
         ELSE <<c>> \o sorted

\* one step of the stable sort: c goes behind every component at least as long
RECURSIVE InsertBySize(_, _)
InsertBySize(sorted, c) ==
    IF sorted = <<>> THEN <<c>>
    ELSE IF Len(Head(sorted)) >= Len(c)
         THEN <<Head(sorted)>> \o InsertBySize(Tail(sorted), c)
         ELSE <<c>> \o sorted

\* components.sort(key=len, reverse=True)
RECURSIVE SortBySize(_, _)
SortBySize(sorted, components) ==
    IF components = <<>> THEN sorted
    ELSE SortBySize(InsertBySize(sorted, Head(components)), Tail(components))

\* the row with the given id (app_map[x])
RowOf(apps, id) == apps[CHOOSE i \in DOMAIN apps : apps[i].id = id]

\* number of members of comp whose pattern is p
PatternCount(apps, comp, p) ==
    Cardinality({i \in DOMAIN comp : RowOf(apps, comp[i]).pattern_id = p})

\* mutant of DominantPattern: the last pattern, in member order, that no
\* other pattern outnumbers
DominantPattern_LastMax(apps, comp) ==
    LET last == CHOOSE i \in DOMAIN comp :
                    /\ \A j \in DOMAIN comp :
                          PatternCount(apps, comp, RowOf(apps, comp[j]).pattern_id)
                            <= PatternCount(apps, comp, RowOf(apps, comp[i]).pattern_id)
                    /\ \A j \in (i + 1)..Len(comp) :
                          PatternCount(apps, comp, RowOf(apps, comp[j]).pattern_id)
                            < PatternCount(apps, comp, RowOf(apps, comp[i]).pattern_id)
    IN  RowOf(apps, comp[last]).pattern_id

\* max over the pattern counts: the first pattern, in member order, that no
\* other pattern outnumbers
DominantPattern(apps, comp) ==
    LET first == CHOOSE i \in DOMAIN comp :
                    /\ \A j \in DOMAIN comp :
                          PatternCount(apps, comp, RowOf(apps, comp[j]).pattern_id)
                            <= PatternCount(apps, comp, RowOf(apps, comp[i]).pattern_id)
                    /\ \A j \in 1..(i - 1) :
                          PatternCount(apps, comp, RowOf(apps, comp[j]).pattern_id)
                            < PatternCount(apps, comp, RowOf(apps, comp[i]).pattern_id)
    IN  RowOf(apps, comp[first]).pattern_id

\* sum of f over a finite set
RECURSIVE SumOver(_, _)
SumOver(S, f) ==
    IF S = {} THEN 0
    ELSE LET x == CHOOSE y \in S : TRUE
         IN  f[x] + SumOver(S \ {x}, f)

\* sum(affinity_score.get(p, 0) for p in internal_pairs)
BundleAffinity(affinity, comp) ==
    LET pairs == {ij \in (DOMAIN comp) \X (DOMAIN comp) : IdLess(comp[ij[1]], comp[ij[2]])}
    IN  SumOver(pairs, [ij \in pairs |-> affinity[SortedPair(comp[ij[1]], comp[ij[2]])]])

\* mutant of CouplingLabel: the bound itself is not enough
CouplingLabel_Strict(bundle_affinity, size) ==
    IF bundle_affinity > Max(4, size * 2) THEN "tight" ELSE "loose"

\* "tight" if bundle_affinity >= max(4, len(comp) * 2) else "loose"
CouplingLabel(bundle_affinity, size) ==
    IF bundle_affinity >= Max(4, size * 2) THEN "tight" ELSE "loose"

\* f"BUNDLE-{i:03d}"
BundleId(i) ==
    IF i < 10 THEN "BUNDLE-00" \o ToString(i)
    ELSE IF i < 100 THEN "BUNDLE-0" \o ToString(i)
    ELSE "BUNDLE-" \o ToString(i)

\* the item built for the i-th component of the sorted list
BundleItem(apps, affinity, comp, i) ==
    LET bundle_affinity == BundleAffinity(affinity, comp)
        coupling == CouplingLabel(bundle_affinity, Len(comp))
    IN  [bundle_id |-> BundleId(i),
         pattern_id |-> DominantPattern(apps, comp),
         app_ids |-> comp,
         coupling |-> coupling,
         affinity_score |-> bundle_affinity,
         bundle_reason |-> IF coupling = "tight"
                           THEN "Tightly coupled via shared DB/integration"
                           ELSE "Loosely coupled; can migrate in silos"]

\* the responses bundles(run_id) can give for the rows of the run; the call
\* raises when the extractor raises on some row
bundles(apps) ==
    IF \E i \in DOMAIN apps : _extract_integration_model(apps[i].findings_json).raised
    THEN {[raised |-> TRUE, count |-> 0, items |-> <<>>]}
    ELSE IF apps = <<>> THEN {[raised |-> FALSE, count |-> 0, items |-> <<>>]}
    ELSE LET g == BuildGraph(EmptyGraph(apps), apps, 1)
         IN  {LET sorted == SortBySize(<<>>, components)
              IN  [raised |-> FALSE,
                   count |-> Len(sorted),
                   items |-> [i \in DOMAIN sorted |->
                                 BundleItem(apps, g.affinity, sorted[i], i)]] :
                 components \in ComponentsFrom(g.neighbors, RowIds(apps), 1, {}, <<>>)}

-----------------------------------------------------------------------------
(***************************************************************************)
(* Calls of bundles(run_id) on the rows of one scan run.  A run is drawn   *)
(* as a number of applications and a set of facts about them: links to     *)
(* applications and datastores, a pattern other than P1, or a findings     *)
(* record the extractor cannot iterate.                                    *)
(***************************************************************************)

\* most applications in a run
MaxApps == 3

\* most facts recorded about the applications of a run
MaxFacts == 2

\* a target that is not an application of the run
ExternalTarget == "billing-gateway"

Facts(n) ==
    {f \in [kind : {"app"}, src : 1..n, target : {AppIds[j] : j \in 1..n},
            tight : BOOLEAN] :
        f.target # AppIds[f.src] \/ (f.src = 1 /\ f.tight)}
    \cup [kind : {"app"}, src : {1} \cap 1..n, target : {ExternalTarget}, tight : BOOLEAN]
    \cup [kind : {"db"}, src : 1..n, datastore : {"pg"}, tight : BOOLEAN]
    \cup [kind : {"db"}, src : 1..n, datastore : {"MySQL"}, tight : {TRUE}]
    \cup [kind : {"pattern"}, src : 1..n]
    \cup [kind : {"malformed"}, src : {n} \cap 1..n]

\* the findings record that states one fact
FactRecord(f) ==
    CASE f.kind = "app" /\ f.tight ->
            JDict([Rec(JStr("app_to_app_integration")) EXCEPT
                     !.integration_points = JList(<<Point(JStr(f.target), JStr("Tight"))>>)])
      [] f.kind = "app" /\ ~f.tight ->
            JDict([Rec(JStr("app_to_app_integration")) EXCEPT
                     !.targets = JList(<<JStr(f.target)>>)])
      [] f.kind = "db" /\ f.tight ->
            JDict([Rec(JStr("app_to_db_integration")) EXCEPT
                     !.datastores = JList(<<JStr(f.datastore)>>),
                     !.coupling = JStr("Tight")])
      [] f.kind = "db" /\ ~f.tight ->
            JDict([Rec(JStr("app_to_db_integration")) EXCEPT
                     !.datastores = JList(<<JStr(f.datastore), JStr("none")>>)])
      [] f.kind = "malformed" ->
            JDict([Rec(JStr("app_to_db_integration")) EXCEPT !.datastores = JNum(5)])

\* the rows of a run of n applications about which the facts F hold
RunRows(n, F) ==
    [i \in 1..n |->
        [id |-> AppIds[i],
         name |-> "svc-" \o ToString(i),
         pattern_id |-> IF [kind |-> "pattern", src |-> i] \in F THEN "P4" ELSE "P1",
         gcp_target |-> IF [kind |-> "pattern", src |-> i] \in F
                        THEN PATTERNS["P4"].gcp_target ELSE PATTERNS["P1"].gcp_target,
         risk_score |-> IF [kind |-> "pattern", src |-> i] \in F THEN 700 ELSE 250,
         findings_json |->
            JList(SetToSeq({FactRecord(f) : f \in {g \in F : g.src = i /\ g.kind # "pattern"}}))]]

\* the runs of n applications about which at most max_facts facts hold
AssessInputs(n, max_facts) ==
    {RunRows(n, F) : F \in SubsetsUpTo(Facts(n), max_facts)}

InitAssess ==
    /\ \E n \in 0..MaxApps : applications \in AssessInputs(n, MaxFacts)
    /\ bundles_resp = NoCall
    /\ graph_resp = NoCall
    /\ ScanIdle /\ ExtractIdle /\ ClassifyIdle /\ OverrideIdle

\* one request GET /bundles/{run_id}
BundlesCall ==
    /\ bundles_resp = NoCall
    /\ bundles_resp' \in bundles(applications)
    /\ UNCHANGED <<token, scan_runs, requests, jobs, findings_raw, extract_out,
                   cls_in, cls_out, ovr_in, ovr_out, applications, graph_resp>>

NextAssess == BundlesCall

SpecAssess == InitAssess /\ [][NextAssess]_vars

\* bundles(run_id) has answered without raising
BundlesReturned == bundles_resp # NoCall /\ ~bundles_resp.raised

\* the places (bundle, position) at which an id is listed in the response
PlacesOf(id) ==
    UNION {{<<b, p>> : p \in {q \in DOMAIN bundles_resp.items[b].app_ids :
                                  bundles_resp.items[b].app_ids[q] = id}} :
              b \in DOMAIN bundles_resp.items}

\* C1: the items returned by bundles() partition the applications of the
\* run: every application id is listed exactly once over all app_ids lists,
\* and nothing else is listed.
C1_BundlesPartition ==
    BundlesReturned =>
        /\ \A id \in IdSet(applications) : Cardinality(PlacesOf(id)) = 1
        /\ \A b \in DOMAIN bundles_resp.items :
              \A p \in DOMAIN bundles_resp.items[b].app_ids :
                 bundles_resp.items[b].app_ids[p] \in IdSet(applications)
        /\ bundles_resp.count = Len(bundles_resp.items)

\* a response with a bundle of two linked applications and a bundle of one
C1_Witness ==
    /\ BundlesReturned
    /\ Len(applications) = 3
    /\ Len(bundles_resp.items) = 2
    /\ Len(bundles_resp.items[1].app_ids) = 2

\* C9: a bundle is labelled "tight" exactly when its affinity_score is at
\* least max(4, 2 x members), equality included, and bundle_reason is the
\* fixed string of the label.
C9_TightIffAtBound ==
    BundlesReturned =>
        \A b \in DOMAIN bundles_resp.items :
            LET item == bundles_resp.items[b]
            IN  /\ item.coupling = "tight" <=>
                      item.affinity_score >= Max(4, 2 * Len(item.app_ids))
                /\ item.coupling \in {"tight", "loose"}
                /\ item.coupling = "tight" =>
                      item.bundle_reason = "Tightly coupled via shared DB/integration"
                /\ item.coupling = "loose" =>
                      item.bundle_reason = "Loosely coupled; can migrate in silos"

\* a bundle of three whose affinity_score is exactly the bound 6
C9_Witness ==
    /\ BundlesReturned
    /\ \E b \in DOMAIN bundles_resp.items :
          /\ Len(bundles_resp.items[b].app_ids) = 3
          /\ bundles_resp.items[b].affinity_score = 6
          /\ bundles_resp.items[b].coupling = "tight"

\* the db_links the extractor finds for row i
DbLinksOfRow(i) == _extract_integration_model(applications[i].findings_json).db_links

\* row i has a tight db_link to a datastore to which row j has a db_link
TightShared(i, j) ==
    /\ i # j
    /\ \E x \in DOMAIN DbLinksOfRow(i) : \E y \in DOMAIN DbLinksOfRow(j) :
          /\ DbLinksOfRow(i)[x].coupling = "tight"
          /\ DbLinksOfRow(i)[x].datastore = DbLinksOfRow(j)[y].datastore

\* the item of the response that lists the id
ItemOf(id) ==
    bundles_resp.items[CHOOSE b \in DOMAIN bundles_resp.items :
                          \E p \in DOMAIN bundles_resp.items[b].app_ids :
                             bundles_resp.items[b].app_ids[p] = id]

\* C10: when A has a tight db_link to a datastore to which B has any
\* db_link, A and B are in the same bundle and their pair's affinity is at
\* least 4; a bundle of exactly A and B is labelled "tight".
C10_TightDatastoreBundles ==
    BundlesReturned =>
        \A i, j \in DOMAIN applications :
            TightShared(i, j) =>
                LET a == applications[i].id
                    b == applications[j].id
                IN  /\ ItemOf(a) = ItemOf(b)
                    /\ BuildGraph(EmptyGraph(applications), applications, 1)
                          .affinity[SortedPair(a, b)] >= 4
                    /\ Len(ItemOf(a).app_ids) = 2 =>
                          /\ ItemOf(a).coupling = "tight"
                          /\ ItemOf(a).affinity_score >= 4

\* A has a tight link to "pg", B a loose one, there is no app_link, and
\* the two form a bundle labelled "tight"
C10_Witness ==
    /\ BundlesReturned
    /\ Len(applications) >= 2
    /\ TightShared(1, 2)
    /\ DbLinksOfRow(2) = <<[datastore |-> "pg", coupling |-> "loose"]>>
    /\ _extract_integration_model(applications[1].findings_json).app_links = <<>>
    /\ _extract_integration_model(applications[2].findings_json).app_links = <<>>
    /\ ItemOf("APP-001").app_ids \in {<<"APP-001", "APP-002">>, <<"APP-002", "APP-001">>}
    /\ ItemOf("APP-001").coupling = "tight"

\* the row, in the order the rows are read, at which a bundle was discovered:
\* the earliest row among its members
DiscoveredAt(item) ==
    CHOOSE r \in DOMAIN applications :
        /\ \E p \in DOMAIN item.app_ids : item.app_ids[p] = applications[r].id
        /\ \A q \in 1..(r - 1) :
              \A p \in DOMAIN item.app_ids : item.app_ids[p] # applications[q].id

BundleIdTable ==
    <<"BUNDLE-001", "BUNDLE-002", "BUNDLE-003", "BUNDLE-004", "BUNDLE-005", "BUNDLE-006",
      "BUNDLE-007", "BUNDLE-008", "BUNDLE-009", "BUNDLE-010", "BUNDLE-011", "BUNDLE-012">>

\* C19: the bundles are listed by member count, largest first; bundles of
\* equal size stay in the order in which they were discovered; the i-th
\* bundle listed has the id "BUNDLE-" followed by i padded to three digits.
C19_BundlesBySizeThenDiscovery ==
    BundlesReturned =>
        /\ \A b, c \in DOMAIN bundles_resp.items :
              b < c =>
                 LET first == bundles_resp.items[b]
                     second == bundles_resp.items[c]
                 IN  /\ Len(first.app_ids) >= Len(second.app_ids)
                     /\ Len(first.app_ids) = Len(second.app_ids) =>
                           DiscoveredAt(first) < DiscoveredAt(second)
        /\ \A b \in DOMAIN bundles_resp.items :
              bundles_resp.items[b].bundle_id = BundleIdTable[b]

\* a pair discovered second is listed first, before the single application
\* discovered first
C19_Witness ==
    /\ BundlesReturned
    /\ Len(bundles_resp.items) = 2
    /\ DiscoveredAt(bundles_resp.items[1]) = 2
    /\ Len(bundles_resp.items[1].app_ids) = 2
    /\ bundles_resp.items[2].app_ids = <<"APP-001">>
    /\ bundles_resp.items[2].bundle_id = "BUNDLE-002"

\* number of members of a bundle whose row has pattern p
MembersWith(item, p) ==
    Cardinality({q \in DOMAIN item.app_ids :
                    RowOf(applications, item.app_ids[q]).pattern_id = p})

\* first position, in member order, of a member whose row has pattern p
FirstMemberWith(item, p) ==
    CHOOSE q \in DOMAIN item.app_ids :
        /\ RowOf(applications, item.app_ids[q]).pattern_id = p
        /\ \A k \in 1..(q - 1) : RowOf(applications, item.app_ids[k]).pattern_id # p

AppLinksOfRow(i) == _extract_integration_model(applications[i].findings_json).app_links

\* the row that holds the id
RowIndex(id) == CHOOSE i \in DOMAIN applications : applications[i].id = id

\* the weights of all evidence that ties rows i and j, in either direction
Evidence(i, j) ==
    {IF AppLinksOfRow(i)[k].coupling = "tight" THEN 3 ELSE 1 :
        k \in {m \in DOMAIN AppLinksOfRow(i) : AppLinksOfRow(i)[m].target = applications[j].id}}
    \cup {IF AppLinksOfRow(j)[k].coupling = "tight" THEN 3 ELSE 1 :
        k \in {m \in DOMAIN AppLinksOfRow(j) : AppLinksOfRow(j)[m].target = applications[i].id}}
    \cup (IF TightShared(i, j) \/ TightShared(j, i) THEN {4} ELSE {})

\* the strongest evidence for the pair, 0 without any
PairAffinity(i, j) ==
    CHOOSE w \in Evidence(i, j) \cup {0} : \A v \in Evidence(i, j) : v <= w

\* the pairs of positions p < q of a bundle's member list
MemberPairs(item) ==
    {pq \in (DOMAIN item.app_ids) \X (DOMAIN item.app_ids) : pq[1] < pq[2]}

\* C21: a bundle's affinity_score is the sum, over the unordered pairs of
\* distinct members each counted once, of the strongest evidence for the pair
\* (1 loose app_link, 3 tight app_link, 4 datastore shared through a tight
\* db_link), whatever the direction and number of the links; a pair without
\* evidence adds 0 and a link of an application to itself adds nothing.
C21_AffinityIsSumOfPairMaxima ==
    BundlesReturned =>
        \A b \in DOMAIN bundles_resp.items :
            LET item == bundles_resp.items[b]
                pairs == MemberPairs(item)
            IN  item.affinity_score =
                    SumOver(pairs, [pq \in pairs |->
                                      PairAffinity(RowIndex(item.app_ids[pq[1]]),
                                                   RowIndex(item.app_ids[pq[2]]))])

\* two applications linked in both directions, once tight and once loose:
\* the pair counts 3, not 4
C21_Witness ==
    /\ BundlesReturned
    /\ Len(applications) = 2
    /\ Evidence(1, 2) = {1, 3}
    /\ AppLinksOfRow(1) # <<>> /\ AppLinksOfRow(2) # <<>>
    /\ Len(bundles_resp.items) = 1
    /\ bundles_resp.items[1].affinity_score = 3

\* C29: a bundle of exactly two applications is "tight" exactly when the two
\* share a datastore for which one of them has a tight db_link; two
\* applications tied by app_links only, even tight in both directions, make a
\* "loose" bundle; a bundle of one application is "loose".
C29_PairTightIffSharedTightDatastore ==
    BundlesReturned =>
        \A b \in DOMAIN bundles_resp.items :
            LET item == bundles_resp.items[b]
            IN  /\ Len(item.app_ids) = 1 => item.coupling = "loose"
                /\ Len(item.app_ids) = 2 =>
                      LET i == RowIndex(item.app_ids[1])
                          j == RowIndex(item.app_ids[2])
                      IN  item.coupling = "tight" <=> (TightShared(i, j) \/ TightShared(j, i))

\* two applications with a tight app_link in each direction and no datastore
C29_Witness ==
    /\ BundlesReturned
    /\ Len(applications) = 2
    /\ AppLinksOfRow(1) = <<[target |-> "APP-002", coupling |-> "tight"]>>
    /\ AppLinksOfRow(2) = <<[target |-> "APP-001", coupling |-> "tight"]>>
    /\ DbLinksOfRow(1) = <<>> /\ DbLinksOfRow(2) = <<>>
    /\ Len(bundles_resp.items) = 1
    /\ bundles_resp.items[1].affinity_score = 3
    /\ bundles_resp.items[1].coupling = "loose"

\* C16: in a model the extractor returns, the coupling of every app_link and
\* every db_link is "tight" or "loose", and tags is a sorted list of distinct
\* lowercase strings.
C16_CouplingIsTightOrLoose ==
    (extract_out # NoCall /\ ~extract_out.raised) =>
        /\ \A i \in DOMAIN extract_out.app_links :
              extract_out.app_links[i].coupling \in {"tight", "loose"}
        /\ \A i \in DOMAIN extract_out.db_links :
              extract_out.db_links[i].coupling \in {"tight", "loose"}
        /\ \A i, j \in DOMAIN extract_out.tags :
              i < j => /\ extract_out.tags[i] # extract_out.tags[j]
                       /\ \E a, b \in DOMAIN StrRank :
                             /\ StrRank[a] = extract_out.tags[i]
                             /\ StrRank[b] = extract_out.tags[j]
                             /\ a < b
        /\ \A i \in DOMAIN extract_out.tags :
              Lower(extract_out.tags[i]) = extract_out.tags[i]

-----------------------------------------------------------------------------
(***************************************************************************)
(* dependency_graph(run_id) (assessment.py): the nodes and edges built     *)
(* from the rows of one scan run.                                          *)
(***************************************************************************)

\* str.upper() on the datastore names drawn
UpperTable == [s \in {"pg", "mysql"} |-> IF s = "pg" THEN "PG" ELSE "MYSQL"]

Upper(s) == IF s \in DOMAIN UpperTable THEN UpperTable[s] ELSE s

\* mutant of add_node: the node is appended whether or not its id was seen
add_node_NoSeenTest(nodes, node) == Append(nodes, node)

\* add_node: a node whose id is in seen_nodes is not added again (seen_nodes
\* holds the ids of the nodes list)
add_node(nodes, node) ==
    IF \E i \in DOMAIN nodes : nodes[i].id = node.id THEN nodes
    ELSE Append(nodes, node)

\* the node of an application row; risk_score is in tenths
AppNode(app) ==
    [id |-> app.id,
     label |-> app.name,
     type |-> "app",
     pattern |-> app.pattern_id,
     risk_score |-> app.risk_score,
     risk |-> IF app.risk_score >= 700 THEN "high"
              ELSE IF app.risk_score >= 400 THEN "medium" ELSE "low",
     critical |-> app.risk_score >= 700]

\* the node of the application's migration target
GcpNode(app) ==
    [id |-> "gcp-" \o app.id,
     label |-> IF app.gcp_target = "" THEN "GCP" ELSE app.gcp_target,
     type |-> "gcp"]

\* the loop over model["app_links"]
RECURSIVE GraphAppLinks(_, _, _, _)
GraphAppLinks(g, app, app_ids, links) ==
    IF links = <<>> THEN g
    ELSE LET target == Head(links).target
             coupling == Head(links).coupling
             next ==
                IF target \in app_ids
                THEN [g EXCEPT !.edges =
                        Append(@, [from |-> app.id, to |-> target, type |-> "app",
                                   label |-> "calls", coupling |-> coupling,
                                   weight |-> IF coupling = "tight" THEN 3 ELSE 1])]
                ELSE [g EXCEPT
                        !.nodes = add_node(@, [id |-> "ext-" \o target,
                                               label |-> target,
                                               type |-> "external_app"]),
                        !.edges =
                        Append(@, [from |-> app.id, to |-> "ext-" \o target,
                                   type |-> "app", label |-> "calls",
                                   coupling |-> coupling, weight |-> 1])]
         IN  GraphAppLinks(next, app, app_ids, Tail(links))

\* mutant of GraphDbLinks: an edge already listed is not listed again
RECURSIVE GraphDbLinks_Dedup(_, _, _)
GraphDbLinks_Dedup(g, app, db_links) ==
    IF db_links = <<>> THEN g
    ELSE LET datastore == Head(db_links).datastore
             coupling == Head(db_links).coupling
             listed == \E e \in DOMAIN g.edges :
                          /\ g.edges[e].from = app.id
                          /\ g.edges[e].to = "db-" \o datastore
             next ==
                [g EXCEPT
                   !.nodes = add_node(@, [id |-> "db-" \o datastore,
                                          label |-> Upper(datastore),
                                          type |-> "db"]),
                   !.edges =
                   IF listed THEN @
                   ELSE Append(@, [from |-> app.id, to |-> "db-" \o datastore,
                                   type |-> "db", label |-> "reads/writes",
                                   coupling |-> coupling,
                                   weight |-> IF coupling = "tight" THEN 4 ELSE 2])]
         IN  GraphDbLinks_Dedup(next, app, Tail(db_links))

\* the loop over model["db_links"]
RECURSIVE GraphDbLinks(_, _, _)
GraphDbLinks(g, app, db_links) ==
    IF db_links = <<>> THEN g
    ELSE LET datastore == Head(db_links).datastore
             coupling == Head(db_links).coupling
             next ==
                [g EXCEPT
                   !.nodes = add_node(@, [id |-> "db-" \o datastore,
                                          label |-> Upper(datastore),
                                          type |-> "db"]),
                   !.edges =
                   Append(@, [from |-> app.id, to |-> "db-" \o datastore,
                              type |-> "db", label |-> "reads/writes",
                              coupling |-> coupling,
                              weight |-> IF coupling = "tight" THEN 4 ELSE 2])]
         IN  GraphDbLinks(next, app, Tail(db_links))

\* the body of the loop over apps
GraphApp(g, app, app_ids) ==
    LET model == _extract_integration_model(app.findings_json)
        own == [g EXCEPT
                  !.nodes = add_node(add_node(@, AppNode(app)), GcpNode(app)),
                  !.edges = Append(@, [from |-> app.id, to |-> "gcp-" \o app.id,
                                       type |-> "api", label |-> "migrates_to"])]
    IN  IF g.raised \/ model.raised THEN [g EXCEPT !.raised = TRUE]
        ELSE GraphDbLinks(GraphAppLinks(own, app, app_ids, model.app_links),
                          app, model.db_links)

RECURSIVE GraphLoop(_, _, _)
GraphLoop(g, apps, i) ==
    IF i > Len(apps) THEN g
    ELSE GraphLoop(GraphApp(g, apps[i], IdSet(apps)), apps, i + 1)

\* the response of dependency_graph(run_id) for the rows of the run; the
\* call raises when the extractor raises on some row
dependency_graph(apps) ==
    LET g == GraphLoop([raised |-> FALSE, nodes |-> <<>>, edges |-> <<>>], apps, 1)
    IN  IF g.raised THEN [raised |-> TRUE, nodes |-> <<>>, edges |-> <<>>] ELSE g

\* one request GET /graph/{run_id}
GraphCall ==
    /\ graph_resp = NoCall
    /\ graph_resp' = dependency_graph(applications)
    /\ UNCHANGED <<token, scan_runs, requests, jobs, findings_raw, extract_out,
                   cls_in, cls_out, ovr_in, ovr_out, applications, bundles_resp>>

NextGraph == GraphCall

SpecGraph == InitAssess /\ [][NextGraph]_vars

\* dependency_graph(run_id) has answered without raising
GraphReturned == graph_resp # NoCall /\ ~graph_resp.raised

NodeIds == {graph_resp.nodes[i].id : i \in DOMAIN graph_resp.nodes}

\* the links the extractor reads from the rows of the run
AllAppLinks ==
    UNION {{<<i, k>> : k \in DOMAIN _extract_integration_model(applications[i].findings_json).app_links} :
              i \in DOMAIN applications}

AllDbLinks ==
    UNION {{<<i, k>> : k \in DOMAIN _extract_integration_model(applications[i].findings_json).db_links} :
              i \in DOMAIN applications}

AppLinkAt(p) == _extract_integration_model(applications[p[1]].findings_json).app_links[p[2]]

DbLinkAt(p) == _extract_integration_model(applications[p[1]].findings_json).db_links[p[2]]

\* the node ids the rows of the run call for
ExpectedNodeIds ==
    IdSet(applications)
    \cup {"gcp-" \o id : id \in IdSet(applications)}
    \cup {"ext-" \o AppLinkAt(p).target :
             p \in {q \in AllAppLinks : AppLinkAt(q).target \notin IdSet(applications)}}
    \cup {"db-" \o DbLinkAt(p).datastore : p \in AllDbLinks}

\* C14: the graph lists no node id twice; its node ids are exactly those the
\* rows call for (each application, its gcp target, each external target,
\* each datastore), in whatever order the rows are read; an external
\* application or a datastore several applications refer to is one node,
\* with the label and type its first occurrence gave it.
C14_NodesAreUnique ==
    GraphReturned =>
        /\ \A i, j \in DOMAIN graph_resp.nodes :
              graph_resp.nodes[i].id = graph_resp.nodes[j].id => i = j
        /\ NodeIds = ExpectedNodeIds
        /\ \A p \in AllDbLinks :
              [id |-> "db-" \o DbLinkAt(p).datastore,
               label |-> Upper(DbLinkAt(p).datastore),
               type |-> "db"] \in {graph_resp.nodes[i] : i \in DOMAIN graph_resp.nodes}
        /\ \A p \in AllAppLinks :
              AppLinkAt(p).target \notin IdSet(applications) =>
                 [id |-> "ext-" \o AppLinkAt(p).target,
                  label |-> AppLinkAt(p).target,
                  type |-> "external_app"] \in {graph_resp.nodes[i] : i \in DOMAIN graph_resp.nodes}

\* two applications that read the same datastore: one node, two edges to it
C14_Witness ==
    /\ GraphReturned
    /\ Len(applications) = 2
    /\ Cardinality({i \in DOMAIN graph_resp.nodes : graph_resp.nodes[i].id = "db-pg"}) = 1
    /\ Cardinality({e \in DOMAIN graph_resp.edges : graph_resp.edges[e].to = "db-pg"}) = 2
    /\ Len(graph_resp.nodes) = 5

\* C15: every "calls" edge, to an application of the run or to an external
\* node, carries the link's coupling and weighs 3 when it is "tight" and 1
\* otherwise; every "reads/writes" edge weighs 4 when tight and 2 otherwise.
C15_EdgeWeights ==
    GraphReturned =>
        \A e \in DOMAIN graph_resp.edges :
            LET edge == graph_resp.edges[e]
            IN  /\ edge.label = "calls" =>
                      edge.weight = IF edge.coupling = "tight" THEN 3 ELSE 1
                /\ edge.label = "reads/writes" =>
                      edge.weight = IF edge.coupling = "tight" THEN 4 ELSE 2

\* the edges of the response with the given ends and label
EdgesBetween(from, to, label) ==
    {e \in DOMAIN graph_resp.edges :
        /\ graph_resp.edges[e].from = from
        /\ graph_resp.edges[e].to = to
        /\ graph_resp.edges[e].label = label}

\* the nodes of the response with the given id and type
NodesLike(id, type) ==
    {n \in DOMAIN graph_resp.nodes :
        graph_resp.nodes[n].id = id /\ graph_resp.nodes[n].type = type}

\* the node an app_link's edge points at
CallsEnd(target) ==
    IF target \in IdSet(applications) THEN target ELSE "ext-" \o target

\* C25: for every application of the run the graph has exactly one
\* application node, exactly one node "gcp-<id>" and exactly one "migrates_to"
\* edge between them; every app_link gives exactly one "calls" edge, to the
\* application node when the target is in the run and to "ext-<target>"
\* otherwise; every db_link gives exactly one "reads/writes" edge; no edge is
\* dropped as a duplicate, so there are as many edges as applications plus
\* app_links plus db_links.
C25_OneEdgePerLink ==
    GraphReturned =>
        /\ \A i \in DOMAIN applications :
              LET id == applications[i].id
              IN  /\ Cardinality(NodesLike(id, "app")) = 1
                  /\ Cardinality(NodesLike("gcp-" \o id, "gcp")) = 1
                  /\ Cardinality(EdgesBetween(id, "gcp-" \o id, "migrates_to")) = 1
                  /\ \A k \in DOMAIN AppLinksOfRow(i) :
                        Cardinality(EdgesBetween(id, CallsEnd(AppLinksOfRow(i)[k].target), "calls"))
                          = Cardinality({m \in DOMAIN AppLinksOfRow(i) :
                                            AppLinksOfRow(i)[m].target = AppLinksOfRow(i)[k].target})
                  /\ \A k \in DOMAIN DbLinksOfRow(i) :
                        Cardinality(EdgesBetween(id, "db-" \o DbLinksOfRow(i)[k].datastore,
                                                 "reads/writes"))
                          = Cardinality({m \in DOMAIN DbLinksOfRow(i) :
                                            DbLinksOfRow(i)[m].datastore = DbLinksOfRow(i)[k].datastore})
        /\ Len(graph_resp.edges) =
              Len(applications) + Cardinality(AllAppLinks) + Cardinality(AllDbLinks)

\* one application with two db_links to the same datastore: two edges to the
\* one node db-pg
C25_Witness ==
    /\ GraphReturned
    /\ Len(applications) = 1
    /\ Len(DbLinksOfRow(1)) = 2
    /\ Cardinality(NodesLike("db-pg", "db")) = 1
    /\ Cardinality(EdgesBetween("APP-001", "db-pg", "reads/writes")) = 2
    /\ Len(graph_resp.edges) = 3

-----------------------------------------------------------------------------
(***************************************************************************)
(* Scan-run workflow (assessment.py, start_scan and _run_scan_job).  Each  *)
(* action is the code between two awaited database operations; the        *)
(* handlers of different requests and the background jobs interleave at    *)
(* those points.  A run id is the index of its row in scan_runs.           *)
(***************************************************************************)

\* concurrent start_scan requests
MaxRequests == 2

\* longest repository list of a request
MaxRepos == 2

Requests == 1..MaxRequests

\* texts of the exceptions a job meets, with the substrings that
\* _diagnose_scan_error looks for in the lowercased text
ScanErrorNeedles ==
    [t \in {"HTTP Error 409: Conflict", "HTTP Error 403: rate limit exceeded",
            "HTTP Error 403: Forbidden", "HTTP Error 401: Unauthorized",
            "HTTP Error 404: Not Found", ""} |->
        CASE t = "HTTP Error 409: Conflict" -> {"409", "conflict"}
          [] t = "HTTP Error 403: rate limit exceeded" -> {"403", "rate limit"}
          [] t = "HTTP Error 403: Forbidden" -> {"403"}
          [] t = "HTTP Error 401: Unauthorized" -> {"401", "unauthorized"}
          [] t = "HTTP Error 404: Not Found" -> {"404", "not found"}
          [] OTHER -> {}]

ScanErrors == DOMAIN ScanErrorNeedles

\* mutant of _diagnose_scan_error: the exception's text is the failure reason
_diagnose_scan_error_RawReason(exc) ==
    LET raw == IF exc = "" THEN "Unknown scan error" ELSE exc
    IN  [error_code |-> "SCAN_FAILED",
         failure_reason |-> raw,
         remediation |-> "Check selected repositories and integration connectivity, then retry the scan.",
         raw_error |-> raw]

_diagnose_scan_error(exc) ==
    LET raw == IF exc = "" THEN "Unknown scan error" ELSE exc
        has(needle) == needle \in ScanErrorNeedles[exc]
    IN  IF has("409") /\ has("conflict") THEN
            [error_code |-> "REPO_CONFLICT",
             failure_reason |-> "One or more selected repositories cannot be scanned (commonly empty repos without commits).",
             remediation |-> "Remove empty repositories from selection or create an initial commit (for example a README) and rerun.",
             raw_error |-> raw]
        ELSE IF has("403") /\ (has("rate limit") \/ has("api rate limit")) THEN
            [error_code |-> "GITHUB_RATE_LIMIT",
             failure_reason |-> "GitHub API rate limit exceeded for the current token.",
             remediation |-> "Wait for GitHub rate limit reset or use a token with higher quota and rerun the scan.",
             raw_error |-> raw]
        ELSE IF has("401") \/ has("unauthorized") THEN
            [error_code |-> "GITHUB_AUTH",
             failure_reason |-> "GitHub authentication failed while scanning repositories.",
             remediation |-> "Reconnect GitHub with a valid token that has repository read permissions.",
             raw_error |-> raw]
        ELSE IF has("404") \/ has("not found") THEN
            [error_code |-> "REPO_NOT_FOUND",
             failure_reason |-> "One or more selected repositories were not found or are inaccessible.",
             remediation |-> "Verify repository names and token access permissions, then rerun the scan.",
             raw_error |-> raw]
        ELSE
            [error_code |-> "SCAN_FAILED",
             failure_reason |-> "Unexpected failure occurred during orchestrated scan execution.",
             remediation |-> "Check selected repositories and integration connectivity, then retry the scan.",
             raw_error |-> raw]

\* summary_json written by _set_scan_progress
ProgressSummary(stage, progress) ==
    [stage |-> stage, progress |-> progress, error_code |-> "",
     failure_reason |-> "", remediation |-> ""]

\* UPDATE scan_runs SET status=?, summary_json=? WHERE id=?
_set_scan_progress(runs, run_id, status, stage, progress) ==
    [runs EXCEPT ![run_id].status = status,
                 ![run_id].summary = ProgressSummary(stage, progress)]

\* the UPDATE of both failure paths of _run_scan_job
FailRun(runs, run_id, error_msg, error_code, failure_reason, remediation) ==
    [runs EXCEPT ![run_id].status = "failed",
                 ![run_id].error_msg = error_msg,
                 ![run_id].summary =
                     [stage |-> "Scan failed", progress |-> 100,
                      error_code |-> error_code,
                      failure_reason |-> failure_reason,
                      remediation |-> remediation]]

\* SELECT id FROM scan_runs WHERE status IN ('pending','running')
ActiveRuns(runs) ==
    {i \in DOMAIN runs : runs[i].status \in {"pending", "running"}}

\* what the job finds in a repository: the signals matching its files and
\* content, the tests of _calc_risk, and the instruction keywords that occur
\* in its content sample
RepoCatalogue ==
    <<[name |-> "orders-db", fired |-> {16, 17, 39}, secret |-> FALSE, legacy |-> TRUE,
       sql_file |-> FALSE, content |-> {"sql", "kafka"},
       found |-> {1, 7, 8}, dockerfile |-> FALSE, mssql |-> TRUE, lines |-> 6000],
      [name |-> "shop-pcf", fired |-> {25, 26}, secret |-> TRUE, legacy |-> FALSE,
       sql_file |-> FALSE, content |-> {},
       found |-> {8}, dockerfile |-> FALSE, mssql |-> FALSE, lines |-> 800],
      [name |-> "notes", fired |-> {}, secret |-> FALSE, legacy |-> FALSE,
       sql_file |-> FALSE, content |-> {},
       found |-> {7, 8}, dockerfile |-> FALSE, mssql |-> FALSE, lines |-> 120]>>

\* the idx-th repository of every request's list
RepoAt(idx) == RepoCatalogue[((idx - 1) % Len(RepoCatalogue)) + 1]

\* table pattern_instructions as seeded: an empty text for every pattern
SeededInstructions == [pid \in DOMAIN PATTERNS |-> <<>>]

\* contents of table pattern_instructions a job can read at its start
InstructionTables ==
    {SeededInstructions,
     [SeededInstructions EXCEPT !["P5"] = <<"sql", " Kafka">>]}

\* mutant of SelectedResult: the override replaces pattern_id alone
SelectedResult_IdOnly(result, selected_pattern) ==
    [result EXCEPT !.pattern_id = selected_pattern]

\* mutant of SelectedResult: the risk score follows the selected pattern
SelectedResult_Rescored(result, selected_pattern) ==
    LET increment(p) == IF p = "P3" THEN 20 ELSE IF p \in {"P4", "P5"} THEN 15 ELSE 0
    IN  IF selected_pattern # result.pattern_id
        THEN [result EXCEPT !.pattern_id = selected_pattern,
                            !.pattern_name = PATTERNS[selected_pattern].name,
                            !.gcp_target = PATTERNS[selected_pattern].gcp_target,
                            !.risk_score = (@ - increment(result.pattern_id))
                                           + increment(selected_pattern)]
        ELSE result

\* the classifier's result after the instruction override
SelectedResult(result, selected_pattern) ==
    IF selected_pattern # result.pattern_id
    THEN [result EXCEPT !.pattern_id = selected_pattern,
                        !.pattern_name = PATTERNS[selected_pattern].name,
                        !.gcp_target = PATTERNS[selected_pattern].gcp_target]
    ELSE result

\* what the loop body of _run_scan_job derives from a repository of the
\* catalogue under an instruction table: the classifier's result with the
\* selected pattern applied
ScanResults ==
    [c \in DOMAIN RepoCatalogue, table \in InstructionTables |->
        LET repo == RepoCatalogue[c]
            classified == classify_repo(repo)
        IN  SelectedResult(classified,
                _apply_pattern_instructions(classified.pattern_id, repo.content, table))]

\* column findings_json as a row read back holds it: json.dumps of the list
\* of strings, parsed again by row2dict
FindingsColumn(findings) == JList([i \in DOMAIN findings |-> JStr(findings[i])])

\* the variable result of the loop body for repository idx
ScanResult(idx, instructions) ==
    ScanResults[((idx - 1) % Len(RepoCatalogue)) + 1, instructions]

\* the application row _run_scan_job writes for repository idx of a run
ApplicationRecord(run, idx, instructions) ==
    LET result == ScanResult(idx, instructions)
    IN  [id |-> ScanAppId(run, idx),
         scan_run_id |-> run,
         idx |-> idx,
         name |-> RepoAt(idx).name,
         complexity |-> result.complexity,
         risk_score |-> result.risk_score,
         findings_json |-> FindingsColumn(result.findings),
         pattern_id |-> result.pattern_id,
         pattern_name |-> result.pattern_name,
         gcp_target |-> result.gcp_target]

\* GET /graph/{run_id} for a run whose only row was written from the result
\* of the classifier
ClassifiedGraphCall ==
    /\ cls_out # NoCall
    /\ graph_resp = NoCall
    /\ graph_resp' = dependency_graph(
            <<[id |-> ScanAppId(1, 1),
               name |-> "repo",
               pattern_id |-> cls_out.pattern_id,
               gcp_target |-> cls_out.gcp_target,
               risk_score |-> cls_out.risk_score,
               findings_json |-> FindingsColumn(cls_out.findings)]>>)
    /\ UNCHANGED <<token, scan_runs, requests, jobs, findings_raw, extract_out,
                   cls_in, cls_out, ovr_in, ovr_out, applications, bundles_resp>>

NextClassifyGraph == ClassifyCall \/ ClassifiedGraphCall

SpecClassifyGraph == InitClassify /\ [][NextClassifyGraph]_vars

\* C30: the risk_score of classify_repo is in [4.0, 7.5] and its confidence
\* is at least 0.15, so the node of an application whose risk_score is the
\* classifier's has risk band "low" and critical = false.
C30_ClassifierRiskIsLowBand ==
    /\ cls_out # NoCall =>
            /\ 40 <= cls_out.risk_score /\ cls_out.risk_score <= 75
            /\ cls_out.confidence >= 15
    /\ (cls_out # NoCall /\ graph_resp # NoCall) =>
            /\ ~graph_resp.raised
            /\ \E i \in DOMAIN graph_resp.nodes : graph_resp.nodes[i].type = "app"
            /\ \A i \in DOMAIN graph_resp.nodes :
                    graph_resp.nodes[i].type = "app" =>
                        /\ graph_resp.nodes[i].risk_score = cls_out.risk_score
                        /\ graph_resp.nodes[i].risk = "low"
                        /\ graph_resp.nodes[i].critical = FALSE

\* the highest risk the classifier gives, 7.5: pattern P3 with the three
\* increments of the content and the files; the node is in band "low"
C30_Witness ==
    /\ cls_out # NoCall
    /\ graph_resp # NoCall
    /\ cls_in.secret /\ cls_in.legacy /\ cls_in.sql_file
    /\ cls_out.pattern_id = "P3"
    /\ cls_out.risk_score = 75
    /\ graph_resp.nodes[1].id = ScanAppId(1, 1)
    /\ graph_resp.nodes[1].risk = "low"
    /\ ~graph_resp.nodes[1].critical

\* (k, total) for which the float product (k / total) * 90 falls just below
\* the exact quotient, for total up to 15
FloatShort == {<<7, 10>>}

\* int((k / total) * 90)
Pct(k, total) ==
    IF <<k, total>> \in FloatShort THEN ((k * 90) \div total) - 1
    ELSE (k * 90) \div total

Init ==
    /\ token \in BOOLEAN
    /\ scan_runs = <<>>
    /\ requests \in [Requests -> [pc : {"new"}, resp : {0}, repos : 0..MaxRepos]]
    /\ jobs = <<>>
    /\ applications = <<>>
    /\ bundles_resp = NoCall
    /\ graph_resp = NoCall
    /\ ExtractIdle /\ ClassifyIdle /\ OverrideIdle

ScanFrame == UNCHANGED <<findings_raw, extract_out, cls_in, cls_out, ovr_in,
                         ovr_out, bundles_resp, graph_resp>>

\* POST /github/connect stores a token
ConnectToken ==
    /\ ~token
    /\ token' = TRUE
    /\ UNCHANGED <<scan_runs, requests, jobs, applications>>
    /\ ScanFrame

\* DELETE /github/connect removes the tokens
DisconnectToken ==
    /\ token
    /\ token' = FALSE
    /\ UNCHANGED <<scan_runs, requests, jobs, applications>>
    /\ ScanFrame

\* start_scan up to the token lookup: 400 on an empty list or no token
StartScanValidate(r) ==
    /\ requests[r].pc = "new"
    /\ requests' = [requests EXCEPT ![r] =
            IF requests[r].repos = 0 \/ ~token
            THEN [@ EXCEPT !.pc = "done", !.resp = 400]
            ELSE [@ EXCEPT !.pc = "read_active"]]
    /\ UNCHANGED <<token, scan_runs, jobs, applications>>
    /\ ScanFrame

\* start_scan: the SELECT of the active run; 409 when there is one
StartScanReadActive(r) ==
    /\ requests[r].pc = "read_active"
    /\ requests' = [requests EXCEPT ![r] =
            IF ActiveRuns(scan_runs) # {}
            THEN [@ EXCEPT !.pc = "done", !.resp = 409]
            ELSE [@ EXCEPT !.pc = "insert"]]
    /\ UNCHANGED <<token, scan_runs, jobs, applications>>
    /\ ScanFrame

\* start_scan: INSERT of the pending row, add_task, response
StartScanInsert(r) ==
    /\ requests[r].pc = "insert"
    /\ scan_runs' = Append(scan_runs,
            [status |-> "pending", summary |-> ProgressSummary("", 0),
             error_msg |-> "", repos |-> requests[r].repos, request |-> r])
    /\ jobs' = Append(jobs, [pc |-> "queued", idx |-> 1,
                             instructions |-> SeededInstructions,
                             result |-> NoCall, raised_at |-> ""])
    /\ requests' = [requests EXCEPT ![r].pc = "done", ![r].resp = 200]
    /\ UNCHANGED <<token, applications>>
    /\ ScanFrame

\* _run_scan_job: the token lookup; without a token the run fails at once
JobGetToken(run) ==
    /\ jobs[run].pc = "queued"
    /\ IF ~token
       THEN /\ scan_runs' = FailRun(scan_runs, run, "GitHub not connected",
                                    "GITHUB_NOT_CONNECTED",
                                    "GitHub token is missing for scan execution.",
                                    "Connect GitHub first, then restart the scan.")
            /\ jobs' = [jobs EXCEPT ![run].pc = "done"]
       ELSE /\ scan_runs' = scan_runs
            /\ jobs' = [jobs EXCEPT ![run].pc = "init"]
    /\ UNCHANGED <<token, requests, applications>>
    /\ ScanFrame

\* _run_scan_job: the instructions are read and the "Initializing scan"
\* checkpoint is written
JobInit(run) ==
    /\ jobs[run].pc = "init"
    /\ scan_runs' = _set_scan_progress(scan_runs, run, "running", "Initializing scan", 5)
    /\ \E table \in InstructionTables :
          jobs' = [jobs EXCEPT ![run].pc = "loop", ![run].instructions = table]
    /\ UNCHANGED <<token, requests, applications>>
    /\ ScanFrame

\* _run_scan_job: the "Analyzing" checkpoint of repository idx
JobAnalyze(run) ==
    /\ jobs[run].pc = "loop"
    /\ jobs[run].idx <= scan_runs[run].repos
    /\ LET total == Max(scan_runs[run].repos, 1)
           pct_base == Pct(jobs[run].idx - 1, total)
       IN  scan_runs' = _set_scan_progress(scan_runs, run, "running", "Analyzing",
                                           Max(8, pct_base))
    /\ jobs' = [jobs EXCEPT ![run].pc = "fetch"]
    /\ UNCHANGED <<token, requests, applications>>
    /\ ScanFrame

\* _run_scan_job: repository idx is fetched, classified and written, and the
\* "Processed" checkpoint commits the application row
JobProcess(run) ==
    /\ jobs[run].pc = "fetch"
    /\ LET total == Max(scan_runs[run].repos, 1)
           pct_done == Pct(jobs[run].idx, total)
       IN  scan_runs' = _set_scan_progress(scan_runs, run, "running", "Processed",
                                           Max(10, pct_done))
    /\ applications' = Append(applications,
                              ApplicationRecord(run, jobs[run].idx,
                                                jobs[run].instructions))
    /\ jobs' = [jobs EXCEPT ![run].pc = "loop", ![run].idx = @ + 1,
                            ![run].result = ScanResult(jobs[run].idx,
                                                       jobs[run].instructions)]
    /\ UNCHANGED <<token, requests>>
    /\ ScanFrame

\* _run_scan_job: a database call outside the try block raises: the token
\* lookup or the update of the missing-token branch before it, or the update
\* of the except clause after a call inside it raised. The exception leaves
\* the task and the run's row stays as it was.
JobRaiseOutsideTry(run) ==
    /\ jobs[run].pc \in {"queued", "init", "loop", "fetch"}
    /\ jobs' = [jobs EXCEPT ![run].pc = "done", ![run].raised_at = jobs[run].pc]
    /\ UNCHANGED <<token, scan_runs, requests, applications>>
    /\ ScanFrame

\* _run_scan_job: a call inside the try block raises (a read or write of the
\* database, a GitHub call, the classifier); the except clause records the
\* failure, the open transaction is dropped
JobRaise(run) ==
    /\ jobs[run].pc \in {"init", "loop", "fetch"}
    /\ \E exc \in ScanErrors :
          LET diag == _diagnose_scan_error(exc)
          IN  scan_runs' = FailRun(scan_runs, run, diag.raw_error, diag.error_code,
                                   diag.failure_reason, diag.remediation)
    /\ jobs' = [jobs EXCEPT ![run].pc = "done", ![run].raised_at = jobs[run].pc]
    /\ UNCHANGED <<token, requests, applications>>
    /\ ScanFrame

\* mutant of JobComplete: the run is marked complete before the loop ends
JobComplete_Early(run) ==
    /\ jobs[run].pc = "loop"
    /\ scan_runs' = [scan_runs EXCEPT ![run].status = "complete",
                        ![run].summary = ProgressSummary("Scan complete", 100)]
    /\ jobs' = [jobs EXCEPT ![run].pc = "done"]
    /\ UNCHANGED <<token, requests, applications>>
    /\ ScanFrame

\* _run_scan_job: after the last repository the run is marked complete
JobComplete(run) ==
    /\ jobs[run].pc = "loop"
    /\ jobs[run].idx > scan_runs[run].repos
    /\ scan_runs' = [scan_runs EXCEPT ![run].status = "complete",
                        ![run].summary = ProgressSummary("Scan complete", 100)]
    /\ jobs' = [jobs EXCEPT ![run].pc = "done"]
    /\ UNCHANGED <<token, requests, applications>>
    /\ ScanFrame

Next ==
    \/ ConnectToken
    \/ DisconnectToken
    \/ \E r \in Requests : StartScanValidate(r)
    \/ \E r \in Requests : StartScanReadActive(r)
    \/ \E r \in Requests : StartScanInsert(r)
    \/ \E run \in DOMAIN jobs : JobGetToken(run)
    \/ \E run \in DOMAIN jobs : JobInit(run)
    \/ \E run \in DOMAIN jobs : JobAnalyze(run)
    \/ \E run \in DOMAIN jobs : JobProcess(run)
    \/ \E run \in DOMAIN jobs : JobRaise(run)
    \/ \E run \in DOMAIN jobs : JobRaiseOutsideTry(run)
    \/ \E run \in DOMAIN jobs : JobComplete(run)

Spec == Init /\ [][Next]_vars

\* C2: under any interleaving of concurrent start_scan requests there are
\* never two scan_runs rows whose status is 'pending' or 'running' at the
\* same time.
C2_SingleActiveRun == Cardinality(ActiveRuns(scan_runs)) <= 1

-----------------------------------------------------------------------------
(***************************************************************************)
(* One scan job from request to terminal state: a single client posts a    *)
(* list of up to MaxTotal repositories.                                    *)
(***************************************************************************)

\* longest repository list of the single client
MaxTotal == 10

InitJob ==
    /\ token \in BOOLEAN
    /\ scan_runs = <<>>
    /\ \E n \in 0..MaxTotal :
          requests = [r \in Requests |->
                         IF r = 1 THEN [pc |-> "new", resp |-> 0, repos |-> n]
                         ELSE [pc |-> "done", resp |-> 400, repos |-> 0]]
    /\ jobs = <<>>
    /\ applications = <<>>
    /\ bundles_resp = NoCall
    /\ graph_resp = NoCall
    /\ ExtractIdle /\ ClassifyIdle /\ OverrideIdle

SpecJob == InitJob /\ [][Next]_vars

\* a step of the background task of a run
JobStep(run) ==
    /\ run \in DOMAIN jobs
    /\ \/ JobGetToken(run)
       \/ JobInit(run)
       \/ JobAnalyze(run)
       \/ JobProcess(run)
       \/ JobRaise(run)
       \/ JobRaiseOutsideTry(run)
       \/ JobComplete(run)

\* the event loop keeps running a scheduled background task, and every call
\* the task awaits returns or raises
SpecJobLive ==
    InitJob /\ [][Next]_vars /\ \A run \in Requests : WF_vars(JobStep(run))

Terminal == {"complete", "failed"}

\* application rows written for a run
RowsOfRun(apps, run) == {i \in DOMAIN apps : apps[i].scan_run_id = run}

\* C11: every run inserted as 'pending' eventually is 'complete' or 'failed'
\* when its job is scheduled and every call returns or raises; the job never
\* ends leaving its run non-terminal (an exception is recorded as 'failed'
\* with progress 100 instead of leaving the function), and a job that has
\* ended writes nothing more.
C11_RunsTerminate ==
    /\ \A run \in Requests :
          (run \in DOMAIN scan_runs) ~>
              (run \in DOMAIN scan_runs /\ scan_runs[run].status \in Terminal)
    /\ [](\A run \in DOMAIN jobs :
             jobs[run].pc = "done" =>
                /\ scan_runs[run].status \in Terminal
                /\ scan_runs[run].summary.progress = 100)
    /\ [][\A run \in DOMAIN jobs :
             jobs[run].pc = "done" =>
                /\ jobs'[run] = jobs[run]
                /\ scan_runs'[run] = scan_runs[run]]_vars

\* the failure_reason and remediation that belong to each error code
ErrorCatalogue ==
    [code \in {"GITHUB_NOT_CONNECTED", "REPO_CONFLICT", "GITHUB_RATE_LIMIT",
               "GITHUB_AUTH", "REPO_NOT_FOUND", "SCAN_FAILED"} |->
        CASE code = "GITHUB_NOT_CONNECTED" ->
                <<"GitHub token is missing for scan execution.",
                  "Connect GitHub first, then restart the scan.">>
          [] code = "REPO_CONFLICT" ->
                <<"One or more selected repositories cannot be scanned (commonly empty repos without commits).",
                  "Remove empty repositories from selection or create an initial commit (for example a README) and rerun.">>
          [] code = "GITHUB_RATE_LIMIT" ->
                <<"GitHub API rate limit exceeded for the current token.",
                  "Wait for GitHub rate limit reset or use a token with higher quota and rerun the scan.">>
          [] code = "GITHUB_AUTH" ->
                <<"GitHub authentication failed while scanning repositories.",
                  "Reconnect GitHub with a valid token that has repository read permissions.">>
          [] code = "REPO_NOT_FOUND" ->
                <<"One or more selected repositories were not found or are inaccessible.",
                  "Verify repository names and token access permissions, then rerun the scan.">>
          [] code = "SCAN_FAILED" ->
                <<"Unexpected failure occurred during orchestrated scan execution.",
                  "Check selected repositories and integration connectivity, then retry the scan.">>]

\* the texts error_msg can hold: the exception's text, its replacement when
\* empty, or the fixed text of the missing token
RawErrorTexts == (ScanErrors \ {""}) \cup {"Unknown scan error", "GitHub not connected"}

\* C12: a failed run's summary holds one error_code of the six, with the
\* failure_reason and remediation fixed for that code; the exception's text
\* is in error_msg and is not the summary's failure_reason.
C12_FailedRunsCarryCatalogueEntry ==
    \A run \in DOMAIN scan_runs :
        scan_runs[run].status = "failed" =>
            LET summary == scan_runs[run].summary
            IN  /\ summary.error_code \in DOMAIN ErrorCatalogue
                /\ summary.failure_reason = ErrorCatalogue[summary.error_code][1]
                /\ summary.remediation = ErrorCatalogue[summary.error_code][2]
                /\ scan_runs[run].error_msg \in RawErrorTexts
                /\ summary.failure_reason # scan_runs[run].error_msg

\* a run failed by a rate-limit response
C12_Witness ==
    /\ 1 \in DOMAIN scan_runs
    /\ scan_runs[1].status = "failed"
    /\ scan_runs[1].error_msg = "HTTP Error 403: rate limit exceeded"
    /\ scan_runs[1].summary.error_code = "GITHUB_RATE_LIMIT"

\* C13: every application row the scan workflow writes has a pattern_id among
\* P1..P5, whether the classifier's verdict was kept or the instructions
\* replaced it, and its pattern_name and gcp_target are those PATTERNS gives
\* for that pattern_id.
C13_RowsCarryOnePattern ==
    \A i \in DOMAIN applications :
        /\ applications[i].pattern_id \in {"P1", "P2", "P3", "P4", "P5"}
        /\ applications[i].pattern_name = PATTERNS[applications[i].pattern_id].name
        /\ applications[i].gcp_target = PATTERNS[applications[i].pattern_id].gcp_target

\* a run with a row whose pattern the instructions replaced (P3 became P5)
\* and a row that kept the classifier's verdict
C13_Witness ==
    /\ Len(applications) >= 2
    /\ classify_repo(RepoAt(applications[1].idx)).pattern_id = "P3"
    /\ applications[1].pattern_id = "P5"
    /\ applications[1].pattern_name = "Messaging Rebuild"
    /\ classify_repo(RepoAt(applications[2].idx)).pattern_id = "P4"
    /\ applications[2].pattern_id = "P4"

\* the status changes a write may make
StatusMoves ==
    {<<"pending", "pending">>, <<"pending", "running">>, <<"pending", "failed">>,
     <<"running", "running">>, <<"running", "complete">>, <<"running", "failed">>,
     <<"complete", "complete">>, <<"failed", "failed">>}

\* C17: a run's status only moves pending -> running -> complete or failed;
\* 'complete' and 'failed' are never left; a run becomes 'complete' only when
\* a row has been written for every repository of its list; and a job that
\* finds no token takes its run from 'pending' to 'failed' with no row written.
C17_StatusTransitions ==
    [][\A run \in DOMAIN scan_runs :
          /\ <<scan_runs[run].status, scan_runs'[run].status>> \in StatusMoves
          /\ (scan_runs'[run].status = "complete" /\ scan_runs[run].status # "complete") =>
                Cardinality(RowsOfRun(applications', run)) = scan_runs[run].repos
          /\ (jobs[run].pc = "queued" /\ ~token /\ scan_runs'[run] # scan_runs[run]) =>
                /\ scan_runs[run].status = "pending"
                /\ scan_runs'[run].status = "failed"
                /\ scan_runs'[run].summary.error_code = "GITHUB_NOT_CONNECTED"
                /\ jobs'[run].pc = "done"
                /\ RowsOfRun(applications', run) = {}]_vars

\* a run accepted with a token that its job no longer finds
C17_Witness ==
    /\ 1 \in DOMAIN scan_runs
    /\ requests[1].resp = 200
    /\ scan_runs[1].status = "failed"
    /\ scan_runs[1].summary.error_code = "GITHUB_NOT_CONNECTED"
    /\ RowsOfRun(applications, 1) = {}

\* C18: over the checkpoints a job writes, the stored progress never
\* decreases, whatever the number of repositories; it is at most 90 while
\* the status is 'running' and it is 100 exactly in the terminal states.
C18_ProgressNeverDecreases ==
    [][\A run \in DOMAIN scan_runs :
          /\ scan_runs'[run].summary.progress >= scan_runs[run].summary.progress
          /\ scan_runs'[run].status = "running" =>
                scan_runs'[run].summary.progress <= 90
          /\ scan_runs'[run].status \in Terminal <=>
                scan_runs'[run].summary.progress = 100]_vars

\* the row a job wrote for repository idx of its run
RowWritten(run, idx) ==
    applications[CHOOSE i \in RowsOfRun(applications, run) : applications[i].idx = idx]

\* C26: when the instruction override replaces the pattern of a repository
\* during a scan, the result differs from the classifier's in pattern_id,
\* pattern_name and gcp_target alone: confidence, scores, signals_hit,
\* risk_score, complexity and findings are those computed for the original
\* pattern, and the row written carries them, so its risk_score holds the
\* increment of the original pattern.
C26_OverrideKeepsTheRest ==
    \A run \in DOMAIN jobs :
        jobs[run].result # NoCall =>
            LET idx == jobs[run].idx - 1
                repo == RepoAt(idx)
                classified == classify_repo(repo)
                result == jobs[run].result
                row == RowWritten(run, idx)
            IN  result.pattern_id # classified.pattern_id =>
                    /\ result = [classified EXCEPT
                                    !.pattern_id = result.pattern_id,
                                    !.pattern_name = PATTERNS[result.pattern_id].name,
                                    !.gcp_target = PATTERNS[result.pattern_id].gcp_target]
                    /\ result.risk_score = _calc_risk(repo, classified.pattern_id)
                    /\ result.findings = _generate_findings(repo, classified.pattern_id)
                    /\ row.pattern_id = result.pattern_id
                    /\ row.pattern_name = result.pattern_name
                    /\ row.gcp_target = result.gcp_target
                    /\ row.risk_score = classified.risk_score
                    /\ row.complexity = classified.complexity
                    /\ row.findings_json = FindingsColumn(classified.findings)

\* a repository classified P3 and moved to P5 by the instructions: its row
\* has pattern P5, the risk 6.5 of P3 (4.0 + 2.0 + 0.5) and the finding
\* reported for P3 alone
C26_Witness ==
    /\ 1 \in DOMAIN jobs
    /\ jobs[1].result # NoCall
    /\ jobs[1].idx = 2
    /\ classify_repo(RepoAt(1)).pattern_id = "P3"
    /\ jobs[1].result.pattern_id = "P5"
    /\ RowWritten(1, 1).pattern_id = "P5"
    /\ RowWritten(1, 1).gcp_target = PATTERNS["P5"].gcp_target
    /\ RowWritten(1, 1).risk_score = 65
    /\ RowWritten(1, 1).complexity = "high"
    /\ \E i \in DOMAIN RowWritten(1, 1).findings_json.xs :
            RowWritten(1, 1).findings_json.xs[i] = JStr(FindingTexts[10])

\* C28: when a job fails while it processes its k-th repository, the rows of
\* the k-1 repositories before it stay under the run id, repository k leaves
\* no row, and the status of the run is 'failed'.
C28_FailureKeepsEarlierRows ==
    \A run \in DOMAIN jobs :
        (jobs[run].raised_at \in {"loop", "fetch"}
            /\ jobs[run].idx <= scan_runs[run].repos) =>
                /\ {applications[i].idx : i \in RowsOfRun(applications, run)}
                        = 1..(jobs[run].idx - 1)
                /\ scan_runs[run].status = "failed"

-----------------------------------------------------------------------------
(***************************************************************************)
(* Calls of bundles(run_id) whose SELECT, which has no ORDER BY, returns   *)
(* the rows of the run in any order.                                       *)
(***************************************************************************)

\* most applications in a run whose rows are read in every order
MaxReordered == 2

InitReorder ==
    /\ \E n \in 0..MaxReordered : applications \in AssessInputs(n, MaxFacts)
    /\ bundles_resp = NoCall
    /\ graph_resp = NoCall
    /\ ScanIdle /\ ExtractIdle /\ ClassifyIdle /\ OverrideIdle

\* one request GET /bundles/{run_id}; the rows are read in the order perm
ReorderedBundlesCall ==
    /\ bundles_resp = NoCall
    /\ \E perm \in Permutations(DOMAIN applications) :
          bundles_resp' \in
              bundles([i \in DOMAIN applications |-> applications[perm[i]]])
    /\ UNCHANGED <<token, scan_runs, requests, jobs, findings_raw, extract_out,
                   cls_in, cls_out, ovr_in, ovr_out, applications, graph_resp>>

NextReorder == ReorderedBundlesCall

SpecReorder == InitReorder /\ [][NextReorder]_vars

\* what a response says of its bundles apart from their numbering and the
\* order of their members
BundleSummary(resp) ==
    {[members |-> {resp.items[b].app_ids[p] : p \in DOMAIN resp.items[b].app_ids},
      affinity_score |-> resp.items[b].affinity_score,
      coupling |-> resp.items[b].coupling] : b \in DOMAIN resp.items}

-----------------------------------------------------------------------------
(***************************************************************************)
(* A scan job and a client that asks for the bundles and for the graph of  *)
(* a run, each once and at any moment.                                     *)
(***************************************************************************)

\* longest repository list of a run whose bundles and graph are requested
MaxScanned == 3

InitRun ==
    /\ token \in BOOLEAN
    /\ scan_runs = <<>>
    /\ \E n \in 0..MaxScanned :
          requests = [r \in Requests |->
                         IF r = 1 THEN [pc |-> "new", resp |-> 0, repos |-> n]
                         ELSE [pc |-> "done", resp |-> 400, repos |-> 0]]
    /\ jobs = <<>>
    /\ applications = <<>>
    /\ bundles_resp = NoCall
    /\ graph_resp = NoCall
    /\ ExtractIdle /\ ClassifyIdle /\ OverrideIdle

\* one request GET /bundles/{run_id} on the rows committed so far
RunBundlesCall(run) ==
    /\ bundles_resp = NoCall
    /\ bundles_resp' \in
            bundles(SelectSeq(applications, LAMBDA app : app.scan_run_id = run))
    /\ UNCHANGED <<token, scan_runs, requests, jobs, applications, graph_resp>>
    /\ UNCHANGED <<findings_raw, extract_out, cls_in, cls_out, ovr_in, ovr_out>>

\* one request GET /graph/{run_id} on the rows committed so far
RunGraphCall(run) ==
    /\ graph_resp = NoCall
    /\ graph_resp' =
            dependency_graph(SelectSeq(applications, LAMBDA app : app.scan_run_id = run))
    /\ UNCHANGED <<token, scan_runs, requests, jobs, applications, bundles_resp>>
    /\ UNCHANGED <<findings_raw, extract_out, cls_in, cls_out, ovr_in, ovr_out>>

NextRun ==
    \/ Next
    \/ \E run \in Requests : RunBundlesCall(run)
    \/ \E run \in Requests : RunGraphCall(run)

SpecRun == InitRun /\ [][NextRun]_vars

\* C27: every row written by the scan workflow holds in findings the
\* classifier's list of strings, so the extractor reads no link from it; for
\* the rows of such a run every bundle has one member, affinity_score 0 and
\* coupling "loose", and every edge of the graph is a "migrates_to" edge.
C27_ScanRunsHaveNoLinks ==
    /\ \A i \in DOMAIN applications :
          LET row == applications[i]
              model == _extract_integration_model(row.findings_json)
          IN  /\ row.findings_json =
                    FindingsColumn(classify_repo(RepoAt(row.idx)).findings)
              /\ \A j \in DOMAIN row.findings_json.xs : row.findings_json.xs[j].k = "str"
              /\ ~model.raised
              /\ model.app_links = <<>>
              /\ model.db_links = <<>>
    /\ bundles_resp # NoCall =>
          /\ ~bundles_resp.raised
          /\ \A b \in DOMAIN bundles_resp.items :
                /\ Len(bundles_resp.items[b].app_ids) = 1
                /\ bundles_resp.items[b].affinity_score = 0
                /\ bundles_resp.items[b].coupling = "loose"
    /\ graph_resp # NoCall =>
          /\ ~graph_resp.raised
          /\ \A e \in DOMAIN graph_resp.edges :
                graph_resp.edges[e].label = "migrates_to"
          /\ 2 * Len(graph_resp.edges) = Len(graph_resp.nodes)

\* a complete run of three repositories, each with findings, for which the
\* client received three bundles of one application and a graph of three
\* edges
C27_Witness ==
    /\ 1 \in DOMAIN scan_runs
    /\ scan_runs[1].status = "complete"
    /\ Len(applications) = 3
    /\ \A i \in DOMAIN applications : Len(applications[i].findings_json.xs) >= 1
    /\ bundles_resp # NoCall
    /\ bundles_resp.count = 3
    /\ bundles_resp.items[1].bundle_id = "BUNDLE-001"
    /\ graph_resp # NoCall
    /\ Len(graph_resp.edges) = 3
    /\ Len(graph_resp.nodes) = 6

====
